---- MODULE Spec2Model ----
(***************************************************************************)
(* CartoGraph: tier gating / field masking, the usage counters of a        *)
(* workspace, and the Stripe billing webhook handlers.                     *)
(*                                                                         *)
(*   backend/app/tier_gating.py        TIER_LIMITS, _FIELD_GATING,         *)
(*                                     mask_domain_by_tier, TierGate       *)
(*   backend/app/api/routes/domains.py get_domain, get_domain_by_name      *)
(*   backend/app/api/routes/exports.py export_domains                      *)
(*   backend/app/stripe_billing.py     process_webhook_event and handlers  *)
(***************************************************************************)
EXTENDS Integers, Sequences, FiniteSets, TLC

VARIABLES
    call,       \* the pure-function call under evaluation (SpecPure)
    ret,        \* its return value, NoRet before the call has been applied
    db,         \* table workspace: workspace id -> committed row
    founding_member_count,  \* table founding_member_count, row id = 1
    now,        \* the clock read by datetime.now()
    req,        \* request worker -> its position and ORM session
    hook,       \* billing webhook worker -> its position and ORM session
    result,     \* what the webhook request that finished last returned
    issued,     \* number of API requests started, of those the model bounds
    delivered,  \* billing event id -> number of its deliveries started
    servedLookups,  \* history: workspace -> lookups served (counted in Init)
    servedExports,  \* history: workspace -> exports served
    seats0,     \* history: founding_member_count in the initial state
    applied,    \* history: ids of the billing events a handler has committed
    last,       \* history: the billing event applied last, and the state it left
    endpoint,   \* table webhook_endpoint: the row of the one registered endpoint
    task,       \* the deliver_webhook task message: arguments, retries, outcome
    uuids,      \* number of identifiers uuid.uuid4() has generated
    sent,       \* history: the HTTP requests posted, in order
    receiver,   \* the receiving side: delivery ids seen, events processed
    alerts,     \* table alert: the set of stored alert rows
    response    \* the response of the API request that finished last

pureVars == <<call, ret>>
sysVars == <<db, founding_member_count, now, req, hook, result, issued, delivered,
             servedLookups, servedExports, seats0, applied, last>>
taskVars == <<endpoint, task, uuids, sent, receiver>>
vars == <<call, ret, db, founding_member_count, now, req, hook, result, issued,
          delivered,
          servedLookups, servedExports, seats0, applied, last,
          endpoint, task, uuids, sent, receiver, alerts, response>>

(***************************************************************************)
(* JSON-like values.  Python's None, strings and booleans are tagged       *)
(* records so that any two values can be compared.                         *)
(***************************************************************************)
Null == [t |-> "null"]
Str(s) == [t |-> "str", v |-> s]
True == [t |-> "bool", v |-> TRUE]
Dict(kv) == [t |-> "dict", kv |-> kv]

\* dict.get(key): None when the key is missing
Get(d, k) == IF k \in DOMAIN d THEN d[k] ELSE Null

\* Python truthiness of a JSONB blob: None and the empty dict are falsy
Truthy(blob) == blob.t = "dict" /\ DOMAIN blob.kv # {}

(***************************************************************************)
(* Tier catalogue (tier_gating.py, TIER_LIMITS).  None (= unlimited) is    *)
(* the sentinel -1.                                                        *)
(***************************************************************************)
None == -1

TIER_LIMITS ==
    [ free |->
        [ tier |-> "free", max_lookups_per_month |-> 25, max_rows_per_view |-> 100,
          max_export_credits_per_month |-> 0, max_api_calls_per_month |-> 0,
          max_alerts |-> 0,
          can_export_csv |-> FALSE, can_use_api |-> FALSE, can_use_webhooks |-> FALSE,
          can_white_label |-> FALSE, can_share_workspace |-> FALSE,
          daily_trending |-> FALSE ],
      starter |->
        [ tier |-> "starter", max_lookups_per_month |-> 500, max_rows_per_view |-> 5000,
          max_export_credits_per_month |-> 50, max_api_calls_per_month |-> 0,
          max_alerts |-> 5,
          can_export_csv |-> TRUE, can_use_api |-> FALSE, can_use_webhooks |-> FALSE,
          can_white_label |-> FALSE, can_share_workspace |-> FALSE,
          daily_trending |-> FALSE ],
      professional |->
        [ tier |-> "professional", max_lookups_per_month |-> None,
          max_rows_per_view |-> 50000,
          max_export_credits_per_month |-> 500, max_api_calls_per_month |-> 10000,
          max_alerts |-> 50,
          can_export_csv |-> TRUE, can_use_api |-> TRUE, can_use_webhooks |-> TRUE,
          can_white_label |-> FALSE, can_share_workspace |-> FALSE,
          daily_trending |-> TRUE ],
      business |->
        [ tier |-> "business", max_lookups_per_month |-> None,
          max_rows_per_view |-> 250000,
          max_export_credits_per_month |-> 2000, max_api_calls_per_month |-> 50000,
          max_alerts |-> None,
          can_export_csv |-> TRUE, can_use_api |-> TRUE, can_use_webhooks |-> TRUE,
          can_white_label |-> TRUE, can_share_workspace |-> TRUE,
          daily_trending |-> TRUE ],
      enterprise |->
        [ tier |-> "enterprise", max_lookups_per_month |-> None,
          max_rows_per_view |-> None,
          max_export_credits_per_month |-> None, max_api_calls_per_month |-> None,
          max_alerts |-> None,
          can_export_csv |-> TRUE, can_use_api |-> TRUE, can_use_webhooks |-> TRUE,
          can_white_label |-> TRUE, can_share_workspace |-> TRUE,
          daily_trending |-> TRUE ] ]

KnownTiers == DOMAIN TIER_LIMITS

\* the feature flags a TierLimits object declares
FeatureFlags ==
    {"can_export_csv", "can_use_api", "can_use_webhooks", "can_white_label",
     "can_share_workspace", "daily_trending"}

(***************************************************************************)
(* Tier names a caller may pass.  str.lower() folds the mixed-case         *)
(* spellings onto catalogue names; "Gold" folds to "gold", which is in   *)
(* no catalogue.                                                           *)
(***************************************************************************)
TierNames == KnownTiers \cup {"FREE", "Gold"}

Lower(s) ==
    CASE s = "FREE" -> "free"
      [] s = "Gold" -> "gold"
      [] OTHER -> s

(***************************************************************************)
(* Field gating table (tier_gating.py, _ALWAYS_VISIBLE, _FIELD_GATING,     *)
(* _HIDDEN_FOR_FREE, _HIDDEN_FOR_STARTER).  An entry is None (all          *)
(* sub-keys) or a list of allowed sub-keys.                                *)
(***************************************************************************)
ALWAYS_VISIBLE ==
    {"domain_id", "domain", "country", "tld", "status",
     "first_seen_at", "last_updated_at", "schema_version"}

AllKeys == [none |-> TRUE, keys |-> {}]
Only(keys) == [none |-> FALSE, keys |-> keys]
AllTiersNone ==
    [free |-> AllKeys, starter |-> AllKeys, professional |-> AllKeys,
     business |-> AllKeys, enterprise |-> AllKeys]

FIELD_GATING ==
    [ discovery |->
        [ free |-> Only({"method", "first_seen", "last_verified"}),
          starter |-> Only({"method", "first_seen", "last_verified", "intent_type"}),
          professional |-> AllKeys, business |-> AllKeys, enterprise |-> AllKeys ],
      ecommerce |->
        [ free |-> Only({"platform"}),
          starter |-> Only({"platform", "platform_confidence", "product_count_estimate",
                            "category_primary", "currency"}),
          professional |-> AllKeys, business |-> AllKeys, enterprise |-> AllKeys ],
      seo_metrics |->
        [ free |-> Only({"domain_rating"}),
          starter |-> Only({"domain_rating", "domain_authority",
                            "organic_traffic_estimate", "referring_domains_count",
                            "organic_traffic_trend"}),
          professional |-> AllKeys, business |-> AllKeys, enterprise |-> AllKeys ],
      intent_layer |->
        [ free |-> AllKeys,
          starter |-> Only({"commercial_intent_score"}),
          professional |-> AllKeys, business |-> AllKeys, enterprise |-> AllKeys ],
      serp_intelligence |->
        [ free |-> AllKeys,
          starter |-> Only({"serp_features"}),
          professional |-> AllKeys, business |-> AllKeys, enterprise |-> AllKeys ],
      technical_layer |->
        [ free |-> AllKeys,
          starter |-> Only({"tech_stack"}),
          professional |-> AllKeys, business |-> AllKeys, enterprise |-> AllKeys ],
      contact |->
        [ free |-> AllKeys,
          starter |-> Only({"social_profiles", "has_contact_form"}),
          professional |-> AllKeys, business |-> AllKeys, enterprise |-> AllKeys ],
      meta |->
        [ free |-> Only({"ssl_valid", "mobile_friendly", "page_speed_score"}),
          starter |-> Only({"ssl_valid", "mobile_friendly", "page_speed_score",
                            "language", "title"}),
          professional |-> AllKeys, business |-> AllKeys, enterprise |-> AllKeys ],
      change_tracking |->
        [ free |-> AllKeys,
          starter |-> AllKeys,
          professional |-> Only({"mom_traffic_delta", "trending_score"}),
          business |-> AllKeys, enterprise |-> AllKeys ],
      marketplace_overlap |-> AllTiersNone,
      paid_ads_presence |-> AllTiersNone,
      confidence_score |->
        [ free |-> Only({"value"}),
          starter |-> AllKeys,
          professional |-> AllKeys, business |-> AllKeys, enterprise |-> AllKeys ],
      pipeline |-> AllTiersNone,
      ai_summary |-> AllTiersNone ]

Groups == DOMAIN FIELD_GATING

HIDDEN_FOR_FREE ==
    {"intent_layer", "serp_intelligence", "technical_layer", "contact",
     "change_tracking", "marketplace_overlap", "paid_ads_presence",
     "pipeline", "ai_summary"}

HIDDEN_FOR_STARTER == {"change_tracking"}

\* f"{group}_gated"
GatedKey(g) == g \o "_gated"

(***************************************************************************)
(* Field masking (tier_gating.py, _filter_jsonb and mask_domain_by_tier).  *)
(***************************************************************************)
filter_jsonb(blob, allowed_keys) ==
    IF blob = Null THEN Null
    ELSE IF allowed_keys.none THEN blob
    ELSE Dict([k \in (DOMAIN blob.kv) \cap allowed_keys.keys |-> blob.kv[k]])

\* mask_domain_by_tier, lines 264-266: fold the name, unknown -> "free"
ResolveTierFailOpen(tier) ==
    IF Lower(tier) \in KnownTiers THEN Lower(tier) ELSE "enterprise"

ResolveTier(tier) ==
    IF Lower(tier) \in KnownTiers THEN Lower(tier) ELSE "free"

\* a variant that also hides one group from a paying tier
GroupHiddenAtProfessional(tier_lower, group) ==
    \/ tier_lower = "free" /\ group \in HIDDEN_FOR_FREE
    \/ tier_lower = "starter" /\ group \in HIDDEN_FOR_STARTER
    \/ tier_lower = "professional" /\ group = "seo_metrics"

\* the "completely hidden at this tier" test of the loop body
GroupHidden(tier_lower, group) ==
    \/ tier_lower = "free" /\ group \in HIDDEN_FOR_FREE
    \/ tier_lower = "starter" /\ group \in HIDDEN_FOR_STARTER

\* One pass of the loop body for `group`: the value stored under the group
\* key and whether the `<group>_gated` key is stored.
MaskGroupNoFlag(domain_data, tier_lower, group) ==
    LET allowed_keys == FIELD_GATING[group][tier_lower]
        blob == Get(domain_data, group)
    IN  IF GroupHidden(tier_lower, group)
        THEN [value |-> Null, gated |-> TRUE]
        ELSE IF allowed_keys.none
        THEN [value |-> blob, gated |-> FALSE]
        ELSE [value |-> filter_jsonb(blob, allowed_keys), gated |-> FALSE]

MaskGroupLeaky(domain_data, tier_lower, group) ==
    LET allowed_keys == FIELD_GATING[group][tier_lower]
        blob == Get(domain_data, group)
    IN  IF GroupHidden(tier_lower, group)
        THEN [value |-> Null, gated |-> TRUE]
        ELSE [value |-> blob,
              gated |-> ~allowed_keys.none /\ Truthy(blob)
                        /\ (DOMAIN blob.kv) \ allowed_keys.keys # {}]

MaskGroup(domain_data, tier_lower, group) ==
    LET allowed_keys == FIELD_GATING[group][tier_lower]
        blob == Get(domain_data, group)
    IN  IF GroupHidden(tier_lower, group)
        THEN [value |-> Null, gated |-> TRUE]
        ELSE IF allowed_keys.none
        THEN [value |-> blob, gated |-> FALSE]
        ELSE [value |-> filter_jsonb(blob, allowed_keys),
              gated |-> Truthy(blob) /\ (DOMAIN blob.kv) \ allowed_keys.keys # {}]

\* lines 270-272: the always-visible scalars
MaskScalarsDropTld(domain_data) ==
    [key \in ALWAYS_VISIBLE |->
        IF key = "tld" THEN Null ELSE Get(domain_data, key)]

MaskScalars(domain_data) ==
    [key \in ALWAYS_VISIBLE |-> Get(domain_data, key)]

mask_domain_by_tier(domain_data, tier) ==
    LET tier_lower == ResolveTier(tier)
        gatedKeys == {GatedKey(g) : g \in {h \in Groups :
                          MaskGroup(domain_data, tier_lower, h).gated}}
    IN  [key \in ALWAYS_VISIBLE \cup Groups \cup gatedKeys |->
            IF key \in ALWAYS_VISIBLE THEN MaskScalars(domain_data)[key]
            ELSE IF key \in Groups THEN MaskGroup(domain_data, tier_lower, key).value
            ELSE True]

(***************************************************************************)
(* Quota enforcement (tier_gating.py, class TierGate).  A check returns    *)
(* Pass or the detail of the HTTPException it raises.                      *)
(***************************************************************************)
Pass == [ok |-> TRUE]

\* TierGate.__init__
TierGateFailOpen(tier) ==
    [tier |-> Lower(tier),
     limits |-> IF Lower(tier) \in KnownTiers THEN TIER_LIMITS[Lower(tier)]
                ELSE TIER_LIMITS["enterprise"]]

TierGate(tier) ==
    [tier |-> Lower(tier),
     limits |-> IF Lower(tier) \in KnownTiers THEN TIER_LIMITS[Lower(tier)]
                ELSE TIER_LIMITS["free"]]

\* a variant in which an undeclared flag counts as granted
FlagValueDefaultTrue(limits, feature) ==
    IF feature \in FeatureFlags THEN limits[feature] ELSE TRUE

\* getattr(self.limits, feature, False)
FlagValue(limits, feature) ==
    IF feature \in FeatureFlags THEN limits[feature] ELSE FALSE

require_feature(gate, feature) ==
    IF ~FlagValue(gate.limits, feature)
    THEN [ok |-> FALSE, status_code |-> 403, code |-> "feature_gated",
          feature |-> feature, current_tier |-> gate.tier]
    ELSE Pass

check_row_limit(gate, requested) ==
    LET limit == gate.limits.max_rows_per_view
    IN  IF limit # None /\ requested > limit
        THEN [ok |-> FALSE, status_code |-> 403, code |-> "row_limit_exceeded",
              limit |-> limit, requested |-> requested, current_tier |-> gate.tier]
        ELSE Pass

\* a variant that lets the request at the limit through
check_lookup_quota_Strict(gate, used) ==
    LET limit == gate.limits.max_lookups_per_month
    IN  IF limit # None /\ used > limit
        THEN [ok |-> FALSE, status_code |-> 429, code |-> "lookup_quota_exceeded",
              limit |-> limit, used |-> used, current_tier |-> gate.tier]
        ELSE Pass

check_lookup_quota(gate, used) ==
    LET limit == gate.limits.max_lookups_per_month
    IN  IF limit # None /\ used >= limit
        THEN [ok |-> FALSE, status_code |-> 429, code |-> "lookup_quota_exceeded",
              limit |-> limit, used |-> used, current_tier |-> gate.tier]
        ELSE Pass

\* a variant that does the credit arithmetic before the capability check
check_export_credits_CreditsFirst(gate, used, requested) ==
    LET feature == require_feature(gate, "can_export_csv")
        limit == gate.limits.max_export_credits_per_month
    IN  IF limit # None /\ (used + requested) > limit
        THEN [ok |-> FALSE, status_code |-> 429, code |-> "export_credits_exhausted",
              limit |-> limit, used |-> used, current_tier |-> gate.tier]
        ELSE IF ~feature.ok THEN feature
        ELSE Pass

check_export_credits(gate, used, requested) ==
    LET feature == require_feature(gate, "can_export_csv")
        limit == gate.limits.max_export_credits_per_month
    IN  IF ~feature.ok THEN feature
        ELSE IF limit # None /\ (used + requested) > limit
        THEN [ok |-> FALSE, status_code |-> 429, code |-> "export_credits_exhausted",
              limit |-> limit, used |-> used, current_tier |-> gate.tier]
        ELSE Pass

check_alert_limit(gate, current_count) ==
    LET limit == gate.limits.max_alerts
    IN  IF limit # None /\ current_count >= limit
        THEN [ok |-> FALSE, status_code |-> 403, code |-> "alert_limit_reached",
              limit |-> limit, current_tier |-> gate.tier]
        ELSE Pass

Min(a, b) == IF a < b THEN a ELSE b

\* a variant that ignores the default
clamp_page_size_NoDefault(gate, requested, default) ==
    LET limit == gate.limits.max_rows_per_view
    IN  IF limit # None THEN Min(requested, limit) ELSE requested

clamp_page_size(gate, requested, default) ==
    LET limit == gate.limits.max_rows_per_view
        effective == IF requested > 0 THEN requested ELSE default
    IN  IF limit # None THEN Min(effective, limit) ELSE effective

(***************************************************************************)
(* Inputs of the pure functions, drawn from bounded sets.                  *)
(***************************************************************************)
MaxGroups == 1      \* groups of an input record that carry a blob
MaxKeys == 2        \* sub-keys of a blob
MaxArg == 6         \* small counts tried for every numeric argument
MaxRequested == 2   \* credits requested by one export

\* sub-keys a blob of `group` may carry: every key some tier lists, and one
\* key ("internal_notes") that no tier lists
KeyUniverse(group) ==
    UNION {FIELD_GATING[group][t].keys : t \in KnownTiers} \cup {"internal_notes"}

Salts == {"a", "b"}

Blobs(group, salt) ==
    {Null} \cup
    {Dict([k \in K |-> Str(salt)]) :
        K \in {S \in SUBSET KeyUniverse(group) : Cardinality(S) <= MaxKeys}}

\* the always-visible scalars of an input record: all present, tld null
\* (it is nullable), or status absent from the dict
ScalarInputs(salt) ==
    LET full == [k \in ALWAYS_VISIBLE |-> Str(salt)]
    IN  IF salt = "a"
        THEN { full,
               [full EXCEPT !["tld"] = Null],
               [k \in ALWAYS_VISIBLE \ {"status"} |-> Str(salt)] }
        ELSE { full }

RECURSIVE GroupInputs(_, _)
\* every assignment of blobs to the groups of `gs`
GroupInputs(gs, salt) ==
    IF gs = {} THEN {<<>>}
    ELSE LET g == CHOOSE x \in gs : TRUE
         IN  {(g :> b) @@ rest :
                 b \in Blobs(g, salt), rest \in GroupInputs(gs \ {g}, salt)}

GroupSets == {S \in SUBSET Groups : Cardinality(S) <= MaxGroups}

\* numeric arguments: small values and the neighbourhood of every finite cap
Caps(fld) == {TIER_LIMITS[t][fld] : t \in KnownTiers} \ {None}
Args(fld) == (0..MaxArg) \cup {c + d : c \in Caps(fld), d \in {-1, 0, 1}}

NoRet == [t |-> "none"]

InitMask ==
    \E salt \in Salts, gs \in GroupSets, t \in TierNames :
        \E sc \in ScalarInputs(salt), gr \in GroupInputs(gs, salt) :
            call = [op |-> "mask", domain_data |-> sc @@ gr, tier |-> t]

InitGate ==
    \E t \in TierNames :
        \/ \E f \in FeatureFlags \cup {"can_time_travel"} :
              call = [op |-> "require_feature", tier |-> t, feature |-> f]
        \/ \E n \in Args("max_rows_per_view") :
              call = [op |-> "check_row_limit", tier |-> t, requested |-> n]
        \/ \E n \in Args("max_lookups_per_month") :
              call = [op |-> "check_lookup_quota", tier |-> t, used |-> n]
        \/ \E n \in Args("max_export_credits_per_month"), r \in 0..MaxRequested :
              call = [op |-> "check_export_credits", tier |-> t, used |-> n,
                      requested |-> r]
        \/ \E n \in Args("max_alerts") :
              call = [op |-> "check_alert_limit", tier |-> t, current_count |-> n]
        \/ \E n \in Args("max_rows_per_view") \cup {-1}, d \in {0, 50, 1000} :
              call = [op |-> "clamp_page_size", tier |-> t, requested |-> n,
                      default |-> d]

InitPure == (InitMask \/ InitGate) /\ ret = NoRet

ApplyMask ==
    /\ call.op = "mask" /\ ret = NoRet
    /\ ret' = Dict(mask_domain_by_tier(call.domain_data, call.tier))
    /\ UNCHANGED <<call, sysVars, taskVars, alerts, response>>

ApplyRequireFeature ==
    /\ call.op = "require_feature" /\ ret = NoRet
    /\ ret' = require_feature(TierGate(call.tier), call.feature)
    /\ UNCHANGED <<call, sysVars, taskVars, alerts, response>>

ApplyCheckRowLimit ==
    /\ call.op = "check_row_limit" /\ ret = NoRet
    /\ ret' = check_row_limit(TierGate(call.tier), call.requested)
    /\ UNCHANGED <<call, sysVars, taskVars, alerts, response>>

ApplyCheckLookupQuota ==
    /\ call.op = "check_lookup_quota" /\ ret = NoRet
    /\ ret' = check_lookup_quota(TierGate(call.tier), call.used)
    /\ UNCHANGED <<call, sysVars, taskVars, alerts, response>>

ApplyCheckExportCredits ==
    /\ call.op = "check_export_credits" /\ ret = NoRet
    /\ ret' = check_export_credits(TierGate(call.tier), call.used, call.requested)
    /\ UNCHANGED <<call, sysVars, taskVars, alerts, response>>

ApplyCheckAlertLimit ==
    /\ call.op = "check_alert_limit" /\ ret = NoRet
    /\ ret' = check_alert_limit(TierGate(call.tier), call.current_count)
    /\ UNCHANGED <<call, sysVars, taskVars, alerts, response>>

ApplyClampPageSize ==
    /\ call.op = "clamp_page_size" /\ ret = NoRet
    /\ ret' = [ok |-> TRUE,
               value |-> clamp_page_size(TierGate(call.tier), call.requested,
                                         call.default)]
    /\ UNCHANGED <<call, sysVars, taskVars, alerts, response>>

NextPure ==
    \/ ApplyMask
    \/ ApplyRequireFeature
    \/ ApplyCheckRowLimit
    \/ ApplyCheckLookupQuota
    \/ ApplyCheckExportCredits
    \/ ApplyCheckAlertLimit
    \/ ApplyClampPageSize


(***************************************************************************)
(* The workspace table and the ORM session of a worker.                    *)
(*                                                                         *)
(* A worker loads a row (SELECT), assigns attributes of the loaded object  *)
(* and commits.  The flush at commit writes only the attributes whose      *)
(* value differs from the loaded one (an UPDATE of the changed columns);   *)
(* after a commit the object is expired and an attribute assigned later    *)
(* is written whatever the row holds.  The database runs the default       *)
(* READ COMMITTED isolation: a statement sees every committed write.       *)
(***************************************************************************)
Workspaces == {"w1", "w2"}
RequestWorkers == {"r1", "r2"}
HookWorkers == {"h1", "h2"}

NoneStr == "None"

\* cg_settings.FOUNDING_MEMBER_CAP ("200-seat cap")
FOUNDING_MEMBER_CAP == 200

MaxRequests == 3     \* API requests started in one behaviour
MaxDeliveries == 2   \* billing webhook deliveries started in one behaviour

\* models.py, class Workspace: a new workspace
NewWorkspace ==
    [ tier |-> "free",
      domain_lookups_used |-> 0, export_credits_used |-> 0, api_calls_used |-> 0,
      billing_cycle_start |-> 0,
      stripe_customer_id |-> NoneStr, stripe_subscription_id |-> NoneStr,
      stripe_subscription_status |-> NoneStr, stripe_price_id |-> NoneStr,
      founding_member |-> FALSE, api_token_hash |-> NoneStr ]

\* get_stripe_price_to_tier_map(): the configured price ids
PriceToTierMap ==
    [ price_starter_monthly |-> "starter",
      price_pro_monthly |-> "professional",
      price_pro_founding |-> "professional" ]

\* get_stripe_price_to_tier_map().get(price_id, "free")
TierOfPrice(price_id) ==
    IF price_id \in DOMAIN PriceToTierMap THEN PriceToTierMap[price_id] ELSE "free"

\* client.subscriptions.retrieve(subscription_id): the price of the
\* subscription as the processor holds it
RetrievePrice(subscription_id) ==
    CASE subscription_id = "sub_1" -> "price_pro_founding"
      [] subscription_id = "sub_2f" -> "price_pro_founding"
      [] subscription_id = "sub_2" -> "price_starter_monthly"
      [] OTHER -> "price_legacy"

\* The events the processor may deliver (and deliver again): event["type"]
\* and the fields of event["data"]["object"] the handlers read.
StripeEvents ==
    { [id |-> "evt_co1", type |-> "checkout.session.completed",
       client_reference_id |-> "w1", subscription |-> "sub_1",
       customer |-> "cus_1", founding_member |-> "true"],
      [id |-> "evt_co2", type |-> "checkout.session.completed",
       client_reference_id |-> "w2", subscription |-> "sub_2f",
       customer |-> "cus_2", founding_member |-> "true"],
      [id |-> "evt_co1n", type |-> "checkout.session.completed",
       client_reference_id |-> "w1", subscription |-> "sub_1n",
       customer |-> "cus_1", founding_member |-> "false"],
      [id |-> "evt_co9", type |-> "checkout.session.completed",
       client_reference_id |-> "w9", subscription |-> "sub_9",
       customer |-> "cus_9", founding_member |-> "false"],
      [id |-> "evt_upd2t", type |-> "customer.subscription.updated",
       subscription |-> "sub_2", price |-> "price_legacy",
       status |-> "trialing"],
      [id |-> "evt_inv1", type |-> "invoice.paid", customer |-> "cus_1"],
      [id |-> "evt_fail1", type |-> "invoice.payment_failed", customer |-> "cus_1"],
      [id |-> "evt_upd2", type |-> "customer.subscription.updated",
       subscription |-> "sub_2", price |-> "price_pro_monthly",
       status |-> "past_due"],
      [id |-> "evt_del2", type |-> "customer.subscription.deleted",
       subscription |-> "sub_2"],
      [id |-> "evt_inv2", type |-> "invoice.paid", customer |-> "cus_2"],
      [id |-> "evt_fail2", type |-> "invoice.payment_failed", customer |-> "cus_2"],
      [id |-> "evt_new", type |-> "customer.created", customer |-> "cus_2"] }

EventIds == {ev.id : ev \in StripeEvents}

\* session.get(Workspace, id) / select(Workspace).where(col == value).first():
\* the ids of the matching rows (the columns carry unique indexes)
FindById(id) == {w \in Workspaces : w = id}
FindBy(col, value) == {w \in Workspaces : db[w][col] = value}

\* the state of an ORM object: the row as loaded (none once expired) and
\* the attributes assigned since
NoColumns == [c \in {} |-> 0]
Expired == [expired |-> TRUE, row |-> NoColumns]
Loaded(row) == [expired |-> FALSE, row |-> row]

\* session.commit(): the UPDATE the flush emits for a dirty object
Flush(row, loaded, dirty) ==
    [c \in DOMAIN row |->
        IF c \in DOMAIN dirty /\ (loaded.expired \/ dirty[c] # loaded.row[c])
        THEN dirty[c]
        ELSE row[c]]

IdleReq ==
    [pc |-> "idle", w |-> NoneStr, loaded |-> Expired, dirty |-> NoColumns]
\* history kept by a running handler: the workspace row and the seat counter
\* as they were when the handler started
NoStart == [row |-> NoColumns, count |-> 0]
IdleHook ==
    [pc |-> "idle", ev |-> [id |-> NoneStr, type |-> NoneStr], w |-> NoneStr,
     loaded |-> Expired, dirty |-> NoColumns, start |-> NoStart]
NoResult == [action |-> NoneStr, event_type |-> NoneStr]
NoLast == [id |-> NoneStr, n |-> 0, w |-> NoneStr, row |-> NoColumns, count |-> 0]

\* The initial state: w1 is a new workspace, w2 subscribes to starter; their
\* usage so far in the cycle and the founding seats taken are drawn from
\* values the program reaches.

\* w2 after its checkout of the starter plan
StarterWorkspace ==
    [NewWorkspace EXCEPT
        !.tier = "starter",
        !.stripe_customer_id = "cus_2",
        !.stripe_subscription_id = "sub_2",
        !.stripe_subscription_status = "active",
        !.stripe_price_id = "price_starter_monthly"]

\* w1 after its founding checkout (evt_co1) of the professional plan
ProfessionalWorkspace ==
    [NewWorkspace EXCEPT
        !.tier = "professional",
        !.stripe_customer_id = "cus_1",
        !.stripe_subscription_id = "sub_1",
        !.stripe_subscription_status = "active",
        !.stripe_price_id = "price_pro_founding",
        !.founding_member = TRUE]

\* the state of the system with the table workspace as given
InitSystemWith(rows, seats) ==
    /\ db = rows
    /\ founding_member_count = seats
    /\ now = 1
    /\ req = [r \in RequestWorkers |-> IdleReq]
    /\ hook = [h \in HookWorkers |-> IdleHook]
    /\ result = NoResult
    /\ issued = 0
    /\ delivered = [id \in EventIds |-> 0]
    /\ servedLookups = [w \in Workspaces |-> db[w].domain_lookups_used]
    /\ servedExports = [w \in Workspaces |-> db[w].export_credits_used]
    /\ seats0 = seats
    /\ applied = {}
    /\ last = NoLast

InitSystemAt(lookups1, exports2, seats) ==
    InitSystemWith(
        [w \in Workspaces |->
            IF w = "w1"
            THEN [NewWorkspace EXCEPT !.domain_lookups_used = lookups1]
            ELSE [StarterWorkspace EXCEPT !.export_credits_used = exports2]],
        seats)

InitSystem ==
    \E lookups1 \in {0, TIER_LIMITS["free"].max_lookups_per_month - 1},
       exports2 \in {0, TIER_LIMITS["starter"].max_export_credits_per_month - 1},
       seats \in {FOUNDING_MEMBER_CAP - 2, FOUNDING_MEMBER_CAP - 1} :
        InitSystemAt(lookups1, exports2, seats)

InitSystemNoCall(lookups1, exports2, seats) ==
    InitSystemAt(lookups1, exports2, seats) /\ call = [op |-> NoneStr] /\ ret = NoRet

\* w1 subscribes to professional, w2 holds the row given
InitSubscribed(row2) ==
    /\ InitSystemWith([w \in Workspaces |->
                          IF w = "w1" THEN ProfessionalWorkspace ELSE row2],
                      FOUNDING_MEMBER_CAP - 1)
    /\ call = [op |-> NoneStr]
    /\ ret = NoRet

(***************************************************************************)
(* API requests: routes/domains.py and routes/exports.py.                  *)
(***************************************************************************)
Issue == issued < MaxRequests /\ issued' = issued + 1

\* no request has been answered yet
NoResponse == [status_code |-> 0]

\* the response of a raised HTTPException
Refusal(check) == [status_code |-> check.status_code]

\* the response leaves; the worker's session is closed
Respond(r, resp) ==
    /\ req' = [req EXCEPT ![r] = IdleReq]
    /\ response' = resp

\* get_domain / get_domain_by_name up to the counter assignment: load the
\* caller's workspace, check the quota on the loaded value, fetch the domain
\* (found or not), assign domain_lookups_used = loaded value + 1
LookupBegin(r, w, found) ==
    LET ws == db[w]
        gate == TierGate(ws.tier)
        quota == check_lookup_quota(gate, ws.domain_lookups_used)
    IN  /\ req[r].pc = "idle"
        /\ Issue
        /\ IF ~quota.ok THEN Respond(r, Refusal(quota))
           ELSE IF ~found THEN Respond(r, [status_code |-> 404])
           ELSE /\ req' = [req EXCEPT ![r] =
                    [pc |-> "lookup_commit", w |-> w, loaded |-> Loaded(ws),
                     dirty |-> [domain_lookups_used |-> ws.domain_lookups_used + 1]]]
                /\ UNCHANGED response
        /\ UNCHANGED <<pureVars, taskVars, alerts, db, founding_member_count, now, hook, result, delivered,
                       servedLookups, servedExports, seats0, applied, last>>

\* get_domain: session.add(ws); session.commit(); the masked record is served
LookupCommit(r) ==
    LET w == req[r].w
    IN  /\ req[r].pc = "lookup_commit"
        /\ db' = [db EXCEPT ![w] = Flush(db[w], req[r].loaded, req[r].dirty)]
        /\ servedLookups' = [servedLookups EXCEPT ![w] = @ + 1]
        /\ Respond(r, [status_code |-> 200, masked_for |-> req[r].loaded.row.tier])
        /\ last' = NoLast
        /\ UNCHANGED <<pureVars, taskVars, alerts, founding_member_count, now, hook, result, issued, delivered,
                       servedExports, seats0, applied>>

\* get_domain for a caller without a workspace: tier "free", no quota check
\* and no counter
LookupNoWorkspace(r, found) ==
    /\ req[r].pc = "idle"
    /\ Issue
    /\ Respond(r, IF found THEN [status_code |-> 200, masked_for |-> "free"]
                   ELSE [status_code |-> 404])
    /\ UNCHANGED <<pureVars, taskVars, alerts, db, founding_member_count, now, hook, result, delivered,
                   servedLookups, servedExports, seats0, applied, last>>

\* export_domains up to the credit assignment
ExportBegin(r, w) ==
    LET ws == db[w]
        gate == TierGate(ws.tier)
        credits == check_export_credits(gate, ws.export_credits_used, 1)
    IN  /\ req[r].pc = "idle"
        /\ Issue
        /\ IF ~credits.ok THEN Respond(r, Refusal(credits))
           ELSE /\ req' = [req EXCEPT ![r] =
                    [pc |-> "export_commit", w |-> w, loaded |-> Loaded(ws),
                     dirty |-> [export_credits_used |-> ws.export_credits_used + 1]]]
                /\ UNCHANGED response
        /\ UNCHANGED <<pureVars, taskVars, alerts, db, founding_member_count, now, hook, result, delivered,
                       servedLookups, servedExports, seats0, applied, last>>

\* export_domains: session.add(ws); session.commit(); the rows are flattened
\* for ws.tier, which the commit has expired and the access reloads, and
\* the file is streamed
ExportCommit(r) ==
    LET w == req[r].w
    IN  /\ req[r].pc = "export_commit"
        /\ db' = [db EXCEPT ![w] = Flush(db[w], req[r].loaded, req[r].dirty)]
        /\ servedExports' = [servedExports EXCEPT ![w] = @ + 1]
        /\ Respond(r, [status_code |-> 200, masked_for |-> db'[w].tier])
        /\ last' = NoLast
        /\ UNCHANGED <<pureVars, taskVars, alerts, founding_member_count, now, hook, result, issued, delivered,
                       servedLookups, seats0, applied>>

(***************************************************************************)
(* Billing webhooks: routes/billing.py stripe_webhook (signature verified) *)
(* and stripe_billing.py process_webhook_event with its handlers.          *)
(***************************************************************************)
RECURSIVE SumOver(_, _)
SumOver(f, S) ==
    IF S = {} THEN 0
    ELSE LET x == CHOOSE y \in S : TRUE IN f[x] + SumOver(f, S \ {x})

Deliver(ev) ==
    /\ SumOver(delivered, EventIds) < MaxDeliveries
    /\ delivered' = [delivered EXCEPT ![ev.id] = @ + 1]

\* the handler returns without a write
Return(h, ev, action) ==
    /\ hook' = [hook EXCEPT ![h] = IdleHook]
    /\ result' = [action |-> action, event_type |-> ev.type]

\* the handler has loaded workspace w and assigned the attributes in dirty
Proceed(h, ev, w, dirty, pc) ==
    /\ hook' = [hook EXCEPT ![h] =
                [pc |-> pc, ev |-> ev, w |-> w, loaded |-> Loaded(db[w]),
                 dirty |-> dirty,
                 start |-> [row |-> db[w], count |-> founding_member_count]]]
    /\ UNCHANGED result

\* the "action" a handler returns after its commit
ActionOf(type) ==
    CASE type = "checkout.session.completed" -> "checkout_activated"
      [] type = "customer.subscription.updated" -> "tier_updated"
      [] type = "customer.subscription.deleted" -> "downgraded_to_free"
      [] type = "invoice.paid" -> "usage_reset"
      [] type = "invoice.payment_failed" -> "marked_past_due"

\* history: event ev has been applied to workspace w by the step taken
Record(ev, w) ==
    /\ applied' = applied \cup {ev.id}
    /\ last' = IF last.id = ev.id
               THEN [last EXCEPT !.n = Min(2, @ + 1)]
               ELSE [id |-> ev.id, n |-> 1, w |-> w, row |-> db'[w],
                     count |-> founding_member_count']

\* a variant in which the lookup of an unknown workspace raises
handle_checkout_completed_Raising(h, ev) ==
    LET found == FindById(ev.client_reference_id)
        w == CHOOSE x \in found : TRUE
    IN  /\ ev.type = "checkout.session.completed"
        /\ IF found = {} THEN Return(h, ev, "error")
           ELSE Proceed(h, ev, w,
                    [stripe_customer_id |-> ev.customer,
                     stripe_subscription_id |-> ev.subscription,
                     stripe_subscription_status |-> "active"],
                    IF ev.founding_member = "true" THEN "checkout_count"
                    ELSE "checkout_retrieve")
        /\ UNCHANGED now

\* _handle_checkout_completed up to "if founding:"
handle_checkout_completed(h, ev) ==
    LET found == FindById(ev.client_reference_id)
        w == CHOOSE x \in found : TRUE
    IN  /\ ev.type = "checkout.session.completed"
        /\ IF found = {} THEN Return(h, ev, "skipped")
           ELSE Proceed(h, ev, w,
                    [stripe_customer_id |-> ev.customer,
                     stripe_subscription_id |-> ev.subscription,
                     stripe_subscription_status |-> "active"],
                    IF ev.founding_member = "true" THEN "checkout_count"
                    ELSE "checkout_retrieve")
        /\ UNCHANGED now

\* a variant without the cap test
CheckoutReadCountNoCap(h) ==
    /\ hook[h].pc = "checkout_count"
    /\ hook' = [hook EXCEPT ![h] =
            [@ EXCEPT !.pc = "checkout_increment",
                      !.dirty = [founding_member |-> TRUE] @@ @]]
    /\ UNCHANGED <<pureVars, taskVars, alerts, response, db, founding_member_count, now, req, result, issued,
                   delivered, servedLookups, servedExports, seats0, applied, last>>

\* current = get_founding_member_count(session);
\* if current < FOUNDING_MEMBER_CAP: ws.founding_member = True
CheckoutReadCount(h) ==
    LET current == founding_member_count
    IN  /\ hook[h].pc = "checkout_count"
        /\ hook' = [hook EXCEPT ![h] =
                IF current < FOUNDING_MEMBER_CAP
                THEN [@ EXCEPT !.pc = "checkout_increment",
                               !.dirty = [founding_member |-> TRUE] @@ @]
                ELSE [@ EXCEPT !.pc = "checkout_retrieve"]]
        /\ UNCHANGED <<pureVars, taskVars, alerts, response, db, founding_member_count, now, req, result, issued,
                       delivered, servedLookups, servedExports, seats0, applied, last>>

\* increment_founding_member_count(session): UPDATE count = count + 1 and
\* session.commit(), which also flushes the attributes assigned so far and
\* expires the workspace object
CheckoutIncrement(h) ==
    LET w == hook[h].w
    IN  /\ hook[h].pc = "checkout_increment"
        /\ founding_member_count' = founding_member_count + 1
        /\ db' = [db EXCEPT ![w] = Flush(db[w], hook[h].loaded, hook[h].dirty)]
        /\ hook' = [hook EXCEPT ![h] =
                [@ EXCEPT !.pc = "checkout_retrieve", !.loaded = Expired,
                          !.dirty = NoColumns]]
        /\ last' = IF last.id = hook[h].ev.id THEN last ELSE NoLast
        /\ UNCHANGED <<pureVars, taskVars, alerts, response, now, req, result, issued, delivered, servedLookups,
                       servedExports, seats0, applied>>

\* client.subscriptions.retrieve(subscription_id) answers (ok) or raises;
\* on an answer: price id and tier assigned, session.commit()
CheckoutFinish(h, ok) ==
    LET w == hook[h].w
        ev == hook[h].ev
        price_id == RetrievePrice(ev.subscription)
        dirty == [stripe_price_id |-> price_id, tier |-> TierOfPrice(price_id)]
                    @@ hook[h].dirty
    IN  /\ hook[h].pc = "checkout_retrieve"
        /\ UNCHANGED <<pureVars, taskVars, alerts, response, founding_member_count, now, req, issued, delivered,
                       servedLookups, servedExports, seats0>>
        /\ IF ok
           THEN /\ db' = [db EXCEPT ![w] = Flush(db[w], hook[h].loaded, dirty)]
                /\ Return(h, ev, ActionOf(ev.type))
                /\ Record(ev, w)
           ELSE /\ Return(h, ev, "error")
                /\ last' = NoLast
                /\ UNCHANGED <<db, applied>>

\* a variant that also forgets the customer
handle_subscription_updated_ClearsCustomer(h, ev) ==
    LET found == FindBy("stripe_subscription_id", ev.subscription)
        w == CHOOSE x \in found : TRUE
    IN  /\ ev.type = "customer.subscription.updated"
        /\ IF found = {} THEN Return(h, ev, "skipped")
           ELSE Proceed(h, ev, w,
                    [stripe_price_id |-> ev.price, tier |-> TierOfPrice(ev.price),
                     stripe_subscription_status |-> ev.status,
                     stripe_customer_id |-> NoneStr],
                    "commit")
        /\ UNCHANGED now

\* _handle_subscription_updated up to session.add(ws)
handle_subscription_updated(h, ev) ==
    LET found == FindBy("stripe_subscription_id", ev.subscription)
        w == CHOOSE x \in found : TRUE
    IN  /\ ev.type = "customer.subscription.updated"
        /\ IF found = {} THEN Return(h, ev, "skipped")
           ELSE Proceed(h, ev, w,
                    [stripe_price_id |-> ev.price, tier |-> TierOfPrice(ev.price),
                     stripe_subscription_status |-> ev.status],
                    "commit")
        /\ UNCHANGED now

\* a variant that keeps the price id
handle_subscription_deleted_KeepsPrice(h, ev) ==
    LET found == FindBy("stripe_subscription_id", ev.subscription)
        w == CHOOSE x \in found : TRUE
    IN  /\ ev.type = "customer.subscription.deleted"
        /\ IF found = {} THEN Return(h, ev, "skipped")
           ELSE Proceed(h, ev, w,
                    [tier |-> "free", stripe_subscription_status |-> "cancelled",
                     stripe_subscription_id |-> NoneStr],
                    "commit")
        /\ UNCHANGED now

\* _handle_subscription_deleted up to session.add(ws)
handle_subscription_deleted(h, ev) ==
    LET found == FindBy("stripe_subscription_id", ev.subscription)
        w == CHOOSE x \in found : TRUE
    IN  /\ ev.type = "customer.subscription.deleted"
        /\ IF found = {} THEN Return(h, ev, "skipped")
           ELSE Proceed(h, ev, w,
                    [tier |-> "free", stripe_subscription_status |-> "cancelled",
                     stripe_subscription_id |-> NoneStr,
                     stripe_price_id |-> NoneStr],
                    "commit")
        /\ UNCHANGED now

\* a variant that leaves the export credits alone
handle_invoice_paid_KeepsExports(h, ev) ==
    LET found == FindBy("stripe_customer_id", ev.customer)
        w == CHOOSE x \in found : TRUE
    IN  /\ ev.type = "invoice.paid"
        /\ IF found = {} THEN Return(h, ev, "skipped") /\ UNCHANGED now
           ELSE /\ Proceed(h, ev, w,
                      [domain_lookups_used |-> 0, api_calls_used |-> 0,
                       billing_cycle_start |-> now],
                      "commit")
                /\ now' = now + 1

\* a variant that counts the paid invoices in api_calls_used
handle_invoice_paid_Counting(h, ev) ==
    LET found == FindBy("stripe_customer_id", ev.customer)
        w == CHOOSE x \in found : TRUE
    IN  /\ ev.type = "invoice.paid"
        /\ IF found = {} THEN Return(h, ev, "skipped") /\ UNCHANGED now
           ELSE /\ Proceed(h, ev, w,
                      [domain_lookups_used |-> 0, export_credits_used |-> 0,
                       api_calls_used |-> db[w].api_calls_used + 1,
                       billing_cycle_start |-> now],
                      "commit")
                /\ now' = now + 1

\* _handle_invoice_paid up to session.add(ws)
handle_invoice_paid(h, ev) ==
    LET found == FindBy("stripe_customer_id", ev.customer)
        w == CHOOSE x \in found : TRUE
    IN  /\ ev.type = "invoice.paid"
        /\ IF found = {} THEN Return(h, ev, "skipped") /\ UNCHANGED now
           ELSE /\ Proceed(h, ev, w,
                      [domain_lookups_used |-> 0, export_credits_used |-> 0,
                       api_calls_used |-> 0, billing_cycle_start |-> now],
                      "commit")
                /\ now' = now + 1

\* a variant that also downgrades the workspace
handle_invoice_payment_failed_Downgrades(h, ev) ==
    LET found == FindBy("stripe_customer_id", ev.customer)
        w == CHOOSE x \in found : TRUE
    IN  /\ ev.type = "invoice.payment_failed"
        /\ IF found = {} THEN Return(h, ev, "skipped")
           ELSE Proceed(h, ev, w,
                    [stripe_subscription_status |-> "past_due", tier |-> "free"],
                    "commit")
        /\ UNCHANGED now

\* _handle_invoice_payment_failed up to session.add(ws)
handle_invoice_payment_failed(h, ev) ==
    LET found == FindBy("stripe_customer_id", ev.customer)
        w == CHOOSE x \in found : TRUE
    IN  /\ ev.type = "invoice.payment_failed"
        /\ IF found = {} THEN Return(h, ev, "skipped")
           ELSE Proceed(h, ev, w, [stripe_subscription_status |-> "past_due"],
                        "commit")
        /\ UNCHANGED now

HandledTypes ==
    {"checkout.session.completed", "customer.subscription.updated",
     "customer.subscription.deleted", "invoice.paid", "invoice.payment_failed"}

\* a variant whose else branch answers like a handler that found no workspace
process_webhook_event_ElseSkipped(h, ev) ==
    /\ hook[h].pc = "idle"
    /\ Deliver(ev)
    /\ \/ handle_checkout_completed(h, ev)
       \/ handle_subscription_updated(h, ev)
       \/ handle_subscription_deleted(h, ev)
       \/ handle_invoice_paid(h, ev)
       \/ handle_invoice_payment_failed(h, ev)
       \/ ev.type \notin HandledTypes /\ Return(h, ev, "skipped") /\ UNCHANGED now
    /\ UNCHANGED <<pureVars, taskVars, alerts, response, db, founding_member_count, req, issued, servedLookups,
                   servedExports, seats0, applied, last>>

\* process_webhook_event: dispatch on event["type"]
process_webhook_event(h, ev) ==
    /\ hook[h].pc = "idle"
    /\ Deliver(ev)
    /\ \/ handle_checkout_completed(h, ev)
       \/ handle_subscription_updated(h, ev)
       \/ handle_subscription_deleted(h, ev)
       \/ handle_invoice_paid(h, ev)
       \/ handle_invoice_payment_failed(h, ev)
       \/ ev.type \notin HandledTypes /\ Return(h, ev, "ignored") /\ UNCHANGED now
    /\ UNCHANGED <<pureVars, taskVars, alerts, response, db, founding_member_count, req, issued, servedLookups,
                   servedExports, seats0, applied, last>>

\* session.add(ws); session.commit() at the end of the four short handlers
Commit(h) ==
    LET w == hook[h].w
        ev == hook[h].ev
    IN  /\ hook[h].pc = "commit"
        /\ db' = [db EXCEPT ![w] = Flush(db[w], hook[h].loaded, hook[h].dirty)]
        /\ Return(h, ev, ActionOf(ev.type))
        /\ UNCHANGED <<pureVars, taskVars, alerts, response, founding_member_count, now, req, issued, delivered,
                       servedLookups, servedExports, seats0>>
        /\ Record(ev, w)

(***************************************************************************)
(* routes/billing.py stripe_webhook: the receiver of billing events.  A    *)
(* request carries the Stripe-Signature header: "" when the header is      *)
(* missing, "forged" when construct_webhook_event refuses it, "valid"      *)
(* when the event is constructed.                                          *)
(***************************************************************************)
Signatures == {"", "forged", "valid"}

\* stripe_billing.py construct_webhook_event: stripe.Webhook.construct_event
\* raises unless the header verifies against the webhook secret
construct_webhook_event(signature) == signature = "valid"

\* the detail of the HTTPException(400) raised for a refused request
RejectionOf(signature) ==
    IF signature = "" THEN "Missing Stripe-Signature header" ELSE "Invalid signature"

Rejections == {RejectionOf(signature) : signature \in Signatures \ {"valid"}}

\* a variant in which every request is answered with success
WebhookResponseAlwaysOk(res) == 200

\* The HTTP status of the response to the request that produced res: the
\* HTTPException of a refused request is a 400, the dict a handler returns
\* is a 200, and an exception raised inside process_webhook_event is not
\* caught by stripe_webhook, which the framework answers with a 500.
WebhookResponseOf(res) ==
    CASE res.action \in Rejections -> 400
      [] res.action = "error" -> 500
      [] OTHER -> 200

\* stripe_webhook up to the HTTPException: nothing is processed
Reject(h, signature) ==
    /\ hook[h].pc = "idle"
    /\ ~construct_webhook_event(signature)
    /\ result' = [action |-> RejectionOf(signature), event_type |-> NoneStr]
    /\ UNCHANGED <<pureVars, taskVars, alerts, response, db, founding_member_count, now, req, hook, issued,
                   delivered, servedLookups, servedExports, seats0, applied, last>>

stripe_webhook(h, ev, signature) ==
    \/ Reject(h, signature)
    \/ construct_webhook_event(signature) /\ process_webhook_event(h, ev)

(***************************************************************************)
(* Webhook dispatcher: webhook_tasks.py deliver_webhook, a Celery task     *)
(* that posts one signed notification to a registered endpoint, and the    *)
(* routes of routes/webhooks.py that change the endpoint meanwhile.        *)
(***************************************************************************)
EventTypes == {"domain.created", "domain.updated"}
Payloads == {"doc_a", "doc_b"}
Secrets == {"whsec_a", "whsec_b"}
Url == "https://hooks.example/in"

\* session.get(WebhookEndpoint, id) of a missing row
NoEndpoint == [exists |-> FALSE]

\* the rows the endpoint wh_1 of workspace w1 may hold
EndpointRows ==
    {[exists |-> TRUE, webhook_id |-> "wh_1", workspace_id |-> "w1", url |-> Url,
      secret |-> s, event_types |-> T, is_active |-> a] :
        s \in Secrets, T \in SUBSET EventTypes, a \in BOOLEAN}

\* session.get(WebhookEndpoint, webhook_id)
GetEndpoint(webhook_id) ==
    IF endpoint.exists /\ endpoint.webhook_id = webhook_id THEN endpoint
    ELSE NoEndpoint

\* the options of the @celery_app.task decorator of deliver_webhook
deliver_webhook_options == [max_retries |-> 4, default_retry_delay |-> 30]

\* celery_app.conf task_annotations["*"]
task_annotations == [max_retries |-> 5, default_retry_delay |-> 60]

\* The retry budget the worker applies.  When the task is bound to the
\* application, Celery sets every key of the "*" annotation on the task
\* (Task.annotate: setattr(cls, key, value)), rewriting the attribute the
\* decorator had set.
max_retries == task_annotations.max_retries

\* executions of one task: the first and one per retry
MaxExecutions == 1 + max_retries

\* str(uuid.uuid4()): the n-th identifier generated, unlike every other
Uuid(n) == "uuid-" \o ToString(n)

\* json.dumps({"event": .., "delivery_id": .., "data": ..}).encode(): the
\* bytes of the body, as a sequence of lexical tokens
json_dumps(event_type, delivery_id, payload) ==
    <<"{", "event", event_type, "delivery_id", delivery_id, "data", payload, "}">>

\* str.encode()
encode(str) == <<str>>

\* the numeric value of a token of the byte strings that are hashed
Tokens ==
    <<"{", "}", "event", "delivery_id", "data", "domain.created", "domain.updated",
      "doc_a", "doc_b", "whsec_a", "whsec_b", "ping", "test ping">>
    \o [n \in 1..(MaxExecutions * (MaxRequests + 1)) |-> Uuid(n)]

Code(t) == CHOOSE i \in DOMAIN Tokens : Tokens[i] = t

HexDigits ==
    <<"0", "1", "2", "3", "4", "5", "6", "7", "8", "9", "a", "b", "c", "d", "e", "f">>

RECURSIVE Absorb(_, _)
\* the compression of a byte string into the state of the hash
Absorb(h, bytes) ==
    IF bytes = <<>> THEN h
    ELSE Absorb((h * 257 + Code(Head(bytes))) % 65521, Tail(bytes))

RECURSIVE Squeeze(_, _)
\* hexdigest(): n hexadecimal digits drawn from the state of the hash
Squeeze(x, n) ==
    IF n = 0 THEN <<>>
    ELSE <<HexDigits[(x % 16) + 1]>> \o Squeeze((x * 75 + 74) % 65537, n - 1)

\* hmac.new(key, msg, hashlib.sha256).hexdigest(): a keyed hash of the
\* message, inner hash under the key padded one way, outer hash under the
\* key padded the other way, 32 bytes printed as 64 hexadecimal digits
hmac_hexdigest(key, msg) ==
    LET inner == Absorb(Absorb(54, key), msg)
        outer == (Absorb(92, key) * 257 + inner) % 65521
    IN  Squeeze(outer, 64)

\* a variant that hashes the body without the key
sign_payload_IgnoresSecret(secret, raw_body) ==
    <<"s", "h", "a", "2", "5", "6", "=">> \o hmac_hexdigest(<<>>, raw_body)

\* _sign_payload: f"sha256={digest}"
sign_payload(secret, raw_body) ==
    <<"s", "h", "a", "2", "5", "6", "=">> \o hmac_hexdigest(encode(secret), raw_body)

\* a variant that posts to an inactive endpoint
SkipReasonIgnoresInactive(row, event_type) ==
    IF ~row.exists THEN "endpoint_not_found"
    ELSE IF row.event_types # {} /\ event_type \notin row.event_types
    THEN "event_type_not_subscribed"
    ELSE NoneStr

\* a variant that posts whatever the endpoint subscribes to
SkipReasonIgnoresSubscription(row, event_type) ==
    IF ~row.exists THEN "endpoint_not_found"
    ELSE IF ~row.is_active THEN "endpoint_inactive"
    ELSE NoneStr

\* deliver_webhook, the three early returns: the "reason" of the skipped
\* result, NoneStr when the task goes on to post
SkipReason(row, event_type) ==
    IF ~row.exists THEN "endpoint_not_found"
    ELSE IF ~row.is_active THEN "endpoint_inactive"
    ELSE IF row.event_types # {} /\ event_type \notin row.event_types
    THEN "event_type_not_subscribed"
    ELSE NoneStr

\* What one HTTP attempt meets: a 2xx answer; a non-2xx answer
\* (HTTPStatusError); a timeout after the receiver has handled the request,
\* the response lost (RequestError); a connection that fails before the
\* receiver gets the request (RequestError).
HttpOutcomes == {"2xx", "5xx", "timeout", "connect_error"}

\* a receiver that discards the delivery identifiers it has already seen
Receive(request, outcome) ==
    IF outcome \in {"2xx", "timeout"} /\ request.headers.delivery \notin receiver.seen
    THEN [seen |-> receiver.seen \cup {request.headers.delivery},
          processed |-> receiver.processed + 1]
    ELSE receiver

NoTask ==
    [status |-> "none", webhook_id |-> NoneStr, event_type |-> NoneStr,
     payload |-> NoneStr, retries |-> 0, countdown |-> 0, reason |-> NoneStr,
     delivery_id |-> NoneStr]

\* deliver_webhook.delay(webhook_id, event_type, payload)
QueuedTask(webhook_id, event_type, payload) ==
    [NoTask EXCEPT !.status = "queued", !.webhook_id = webhook_id,
                   !.event_type = event_type, !.payload = payload]

\* raise self.retry(exc=exc, countdown=30 * (2 ** self.request.retries)):
\* a new message with one more retry, or the exception itself once the
\* budget is spent, which ends the task as failed
retry ==
    IF task.retries >= max_retries
    THEN task' = [task EXCEPT !.status = "abandoned"]
    ELSE task' = [task EXCEPT !.status = "retry", !.retries = @ + 1,
                              !.countdown = 30 * (2 ^ task.retries)]

\* one execution of the task body by a worker
deliver_webhook(outcome) ==
    LET delivery_id == Uuid(uuids + 1)
        row == GetEndpoint(task.webhook_id)
        reason == SkipReason(row, task.event_type)
        body == json_dumps(task.event_type, delivery_id, task.payload)
        request == [url |-> row.url,
                    content |-> body,
                    headers |-> [event |-> task.event_type,
                                 signature |-> sign_payload(row.secret, body),
                                 delivery |-> delivery_id]]
    IN  /\ task.status \in {"queued", "retry"}
        /\ uuids' = uuids + 1
        /\ IF reason # NoneStr
           THEN /\ task' = [task EXCEPT !.status = "skipped", !.reason = reason]
                /\ UNCHANGED <<sent, receiver>>
           ELSE /\ sent' = Append(sent, request)
                /\ receiver' = Receive(request, outcome)
                /\ IF outcome = "2xx"
                   THEN task' = [task EXCEPT !.status = "delivered",
                                             !.delivery_id = delivery_id]
                   ELSE retry
        /\ UNCHANGED <<pureVars, sysVars, endpoint, alerts, response>>

(***************************************************************************)
(* routes/webhooks.py: the routes on the endpoints of a workspace, each    *)
(* called by a user for a workspace id and a webhook id.                   *)
(***************************************************************************)
\* the users; Workspace.owner_id, which no route writes
Users == {"u1", "u2"}
owner_id == [w \in Workspaces |-> IF w = "w1" THEN "u1" ELSE "u2"]

\* the workspace ids of the requests: those of the table and one of no row
WorkspaceIds == Workspaces \cup {"w9"}

\* a variant that lets any user in
get_owned_workspace_AnyUser(workspace_id, user_id) ==
    IF workspace_id \notin Workspaces THEN [ok |-> FALSE, status_code |-> 404]
    ELSE Pass

\* workspaces.py _get_owned_workspace
get_owned_workspace(workspace_id, user_id) ==
    IF workspace_id \notin Workspaces THEN [ok |-> FALSE, status_code |-> 404]
    ELSE IF owner_id[workspace_id] # user_id THEN [ok |-> FALSE, status_code |-> 403]
    ELSE Pass

\* _get_owned_webhook
get_owned_webhook(webhook_id, workspace_id) ==
    LET row == GetEndpoint(webhook_id)
    IN  IF ~row.exists THEN [ok |-> FALSE, status_code |-> 404]
        ELSE IF row.workspace_id # workspace_id THEN [ok |-> FALSE, status_code |-> 403]
        ELSE Pass

VALID_EVENT_TYPES == {"domain.created", "domain.updated", "alert.triggered"}

\* _validate_event_types
validate_event_types(types) ==
    IF types \subseteq VALID_EVENT_TYPES THEN Pass
    ELSE [ok |-> FALSE, status_code |-> 422]

\* _to_public: the WebhookPublic view of a row (created_at left out: the
\* model keeps no creation time)
to_public(row) ==
    [webhook_id |-> row.webhook_id, workspace_id |-> row.workspace_id,
     url |-> row.url, event_types |-> row.event_types, is_active |-> row.is_active]

\* _get_owned_workspace, then TierGate(ws.tier).require_feature: what
\* list, create, get, update and test start with
GatedAccess(user, workspace_id) ==
    LET owned == get_owned_workspace(workspace_id, user)
    IN  IF ~owned.ok THEN owned
        ELSE require_feature(TierGate(db[workspace_id].tier), "can_use_webhooks")

\* the same followed by _get_owned_webhook
WebhookAccess(user, workspace_id, webhook_id) ==
    LET gated == GatedAccess(user, workspace_id)
    IN  IF ~gated.ok THEN gated
        ELSE get_owned_webhook(webhook_id, workspace_id)

\* what no route of routes/webhooks.py and routes/alerts.py writes
apiFrame == <<pureVars, db, founding_member_count, now, req, hook, result, delivered,
              servedLookups, servedExports, seats0, applied, last>>

\* list_webhooks
list_webhooks(user, workspace_id) ==
    LET access == GatedAccess(user, workspace_id)
    IN  /\ response' =
              IF ~access.ok THEN Refusal(access)
              ELSE [status_code |-> 200,
                    items |-> {to_public(row) :
                                row \in {x \in {endpoint} :
                                           x.exists /\ x.workspace_id = workspace_id}}]
        /\ UNCHANGED <<apiFrame, issued, taskVars, alerts>>

\* the bodies of POST /webhooks: WebhookCreate
CreatePayloads ==
    {[url |-> Url, event_types |-> T] : T \in {{}, {"domain.created"}, {"ping"}}}

\* create_webhook; signing_secret = secrets.token_hex(32) is any of Secrets,
\* the primary key is new.  The table holds one row at a time.
create_webhook(user, workspace_id, payload, signing_secret) ==
    LET access == GatedAccess(user, workspace_id)
        types == IF payload.event_types # {}
                 THEN validate_event_types(payload.event_types) ELSE Pass
        row == [exists |-> TRUE,
                webhook_id |-> "wh_" \o ToString(issued + 1),
                workspace_id |-> workspace_id,
                url |-> payload.url,
                secret |-> signing_secret,
                event_types |-> payload.event_types,
                is_active |-> TRUE]
    IN  /\ ~endpoint.exists
        /\ Issue
        /\ IF ~access.ok THEN response' = Refusal(access) /\ UNCHANGED endpoint
           ELSE IF ~types.ok THEN response' = Refusal(types) /\ UNCHANGED endpoint
           ELSE /\ endpoint' = row
                /\ response' = [status_code |-> 201, body |-> to_public(row)]
        /\ UNCHANGED <<apiFrame, task, uuids, sent, receiver, alerts>>

\* get_webhook
get_webhook(user, workspace_id, webhook_id) ==
    LET access == WebhookAccess(user, workspace_id, webhook_id)
    IN  /\ response' =
              IF ~access.ok THEN Refusal(access)
              ELSE [status_code |-> 200, body |-> to_public(GetEndpoint(webhook_id))]
        /\ UNCHANGED <<apiFrame, issued, taskVars, alerts>>

\* the payloads of PATCH /webhooks/{id}: is_active and/or event_types
UpdatePayloads ==
    {[is_active |-> a] : a \in BOOLEAN} \cup
    {[event_types |-> T] : T \in SUBSET EventTypes}

\* a payload that subscribes to the type of the test ping
PingPayload == [event_types |-> {"ping"}]

\* a variant that issues a new secret with every update
update_webhook_Rotating(user, workspace_id, webhook_id, payload) ==
    LET access == WebhookAccess(user, workspace_id, webhook_id)
        row == [endpoint EXCEPT !.secret = CHOOSE x \in Secrets : x # @]
    IN  /\ IF ~access.ok THEN response' = Refusal(access) /\ UNCHANGED endpoint
           ELSE /\ endpoint' = row
                /\ response' = [status_code |-> 200, body |-> to_public(row)]
        /\ UNCHANGED <<apiFrame, issued, task, uuids, sent, receiver, alerts>>

\* update_webhook: the assignments are lost when the validation raises,
\* session.commit() not reached
update_webhook(user, workspace_id, webhook_id, payload) ==
    LET access == WebhookAccess(user, workspace_id, webhook_id)
        types == IF "event_types" \in DOMAIN payload
                 THEN validate_event_types(payload.event_types) ELSE Pass
        row == [endpoint EXCEPT
                  !.is_active = IF "is_active" \in DOMAIN payload
                                THEN payload.is_active ELSE @,
                  !.event_types = IF "event_types" \in DOMAIN payload
                                  THEN payload.event_types ELSE @]
    IN  /\ IF ~access.ok THEN response' = Refusal(access) /\ UNCHANGED endpoint
           ELSE IF ~types.ok THEN response' = Refusal(types) /\ UNCHANGED endpoint
           ELSE /\ endpoint' = row
                /\ response' = [status_code |-> 200, body |-> to_public(row)]
        /\ UNCHANGED <<apiFrame, issued, task, uuids, sent, receiver, alerts>>

\* delete_webhook: no feature gate
delete_webhook(user, workspace_id, webhook_id) ==
    LET owned == get_owned_workspace(workspace_id, user)
        access == IF ~owned.ok THEN owned
                  ELSE get_owned_webhook(webhook_id, workspace_id)
    IN  /\ IF ~access.ok THEN response' = Refusal(access) /\ UNCHANGED endpoint
           ELSE /\ endpoint' = NoEndpoint
                /\ response' = [status_code |-> 204]
        /\ UNCHANGED <<apiFrame, issued, task, uuids, sent, receiver, alerts>>

\* test_webhook: deliver_webhook.delay(webhook_id, "ping", {...}).  The
\* model holds one task message, so a ping is requested when none waits.
test_webhook(user, workspace_id, webhook_id) ==
    LET access == WebhookAccess(user, workspace_id, webhook_id)
    IN  /\ task.status \notin {"queued", "retry"}
        /\ Issue
        /\ IF ~access.ok THEN response' = Refusal(access) /\ UNCHANGED task
           ELSE /\ task' = QueuedTask(webhook_id, "ping", "test ping")
                /\ response' = [status_code |-> 202,
                                body |-> [status |-> "queued", webhook_id |-> webhook_id]]
        /\ UNCHANGED <<apiFrame, endpoint, uuids, sent, receiver, alerts>>

(***************************************************************************)
(* routes/alerts.py: the saved alerts of a workspace.  An alert row is     *)
(* kept by its key, its workspace, its type and is_active; the name and    *)
(* the criteria travel with the type.                                      *)
(***************************************************************************)
VALID_ALERT_TYPES == {"new_domain", "tech_change", "dr_change", "serp_feature"}

\* the alert types of the requests
AlertTypes == {"new_domain", "bogus"}

\* select(Alert).where(Alert.workspace_id == workspace_id)
AlertsOf(workspace_id) == {a \in alerts : a.workspace_id = workspace_id}

\* session.get(Alert, alert_id)
GetAlert(alert_id) == {a \in alerts : a.alert_id = alert_id}

\* _get_owned_alert
get_owned_alert(alert_id, workspace_id) ==
    LET found == GetAlert(alert_id)
    IN  IF found = {} THEN [ok |-> FALSE, status_code |-> 404]
        ELSE IF \E a \in found : a.workspace_id # workspace_id
        THEN [ok |-> FALSE, status_code |-> 403]
        ELSE Pass

\* payload.alert_type not in _VALID_ALERT_TYPES
validate_alert_type(alert_type) ==
    IF alert_type \notin VALID_ALERT_TYPES THEN [ok |-> FALSE, status_code |-> 422]
    ELSE Pass

\* list_alerts
list_alerts(user, workspace_id) ==
    LET owned == get_owned_workspace(workspace_id, user)
    IN  /\ response' =
              IF ~owned.ok THEN Refusal(owned)
              ELSE IF TierGate(db[workspace_id].tier).limits.max_alerts = 0
              THEN [status_code |-> 200, items |-> {}]
              ELSE [status_code |-> 200, items |-> AlertsOf(workspace_id)]
        /\ UNCHANGED <<apiFrame, issued, taskVars, alerts>>

\* a variant that stores the alert without the count check
create_alert_NoLimit(user, workspace_id, alert_type) ==
    LET owned == get_owned_workspace(workspace_id, user)
        row == [alert_id |-> "al_" \o ToString(issued + 1),
                workspace_id |-> workspace_id,
                alert_type |-> alert_type,
                is_active |-> TRUE]
    IN  /\ Issue
        /\ IF ~owned.ok THEN response' = Refusal(owned) /\ UNCHANGED alerts
           ELSE /\ alerts' = alerts \cup {row}
                /\ response' = [status_code |-> 201, body |-> row]
        /\ UNCHANGED <<apiFrame, taskVars>>

\* create_alert: the count of the stored alerts is checked against the
\* limit of the tier, then the row is inserted under a new key
create_alert(user, workspace_id, alert_type) ==
    LET owned == get_owned_workspace(workspace_id, user)
        type == validate_alert_type(alert_type)
        limit == IF owned.ok
                 THEN check_alert_limit(TierGate(db[workspace_id].tier),
                                        Cardinality(AlertsOf(workspace_id)))
                 ELSE owned
        row == [alert_id |-> "al_" \o ToString(issued + 1),
                workspace_id |-> workspace_id,
                alert_type |-> alert_type,
                is_active |-> TRUE]
    IN  /\ Issue
        /\ IF ~owned.ok THEN response' = Refusal(owned) /\ UNCHANGED alerts
           ELSE IF ~type.ok THEN response' = Refusal(type) /\ UNCHANGED alerts
           ELSE IF ~limit.ok THEN response' = Refusal(limit) /\ UNCHANGED alerts
           ELSE /\ alerts' = alerts \cup {row}
                /\ response' = [status_code |-> 201, body |-> row]
        /\ UNCHANGED <<apiFrame, taskVars>>

\* the first failure of _get_owned_workspace and _get_owned_alert
AlertAccess(user, workspace_id, alert_id) ==
    LET owned == get_owned_workspace(workspace_id, user)
    IN  IF ~owned.ok THEN owned ELSE get_owned_alert(alert_id, workspace_id)

\* get_alert
get_alert(user, workspace_id, alert_id) ==
    LET access == AlertAccess(user, workspace_id, alert_id)
    IN  /\ response' =
              IF ~access.ok THEN Refusal(access)
              ELSE [status_code |-> 200,
                    body |-> CHOOSE a \in GetAlert(alert_id) : TRUE]
        /\ UNCHANGED <<apiFrame, issued, taskVars, alerts>>

\* update_alert: the alert type is validated before the alert is looked up
update_alert(user, workspace_id, alert_id, alert_type) ==
    LET owned == get_owned_workspace(workspace_id, user)
        type == validate_alert_type(alert_type)
        access == get_owned_alert(alert_id, workspace_id)
        old == CHOOSE a \in GetAlert(alert_id) : TRUE
        row == [old EXCEPT !.alert_type = alert_type]
    IN  /\ IF ~owned.ok THEN response' = Refusal(owned) /\ UNCHANGED alerts
           ELSE IF ~type.ok THEN response' = Refusal(type) /\ UNCHANGED alerts
           ELSE IF ~access.ok THEN response' = Refusal(access) /\ UNCHANGED alerts
           ELSE /\ alerts' = (alerts \ {old}) \cup {row}
                /\ response' = [status_code |-> 200, body |-> row]
        /\ UNCHANGED <<apiFrame, issued, taskVars>>

\* toggle_alert
toggle_alert(user, workspace_id, alert_id) ==
    LET access == AlertAccess(user, workspace_id, alert_id)
        old == CHOOSE a \in GetAlert(alert_id) : TRUE
        row == [old EXCEPT !.is_active = ~@]
    IN  /\ IF ~access.ok THEN response' = Refusal(access) /\ UNCHANGED alerts
           ELSE /\ alerts' = (alerts \ {old}) \cup {row}
                /\ response' = [status_code |-> 200, body |-> row]
        /\ UNCHANGED <<apiFrame, issued, taskVars>>

\* delete_alert
delete_alert(user, workspace_id, alert_id) ==
    LET access == AlertAccess(user, workspace_id, alert_id)
    IN  /\ IF ~access.ok THEN response' = Refusal(access) /\ UNCHANGED alerts
           ELSE /\ alerts' = alerts \ GetAlert(alert_id)
                /\ response' = [status_code |-> 204]
        /\ UNCHANGED <<apiFrame, issued, taskVars>>

(***************************************************************************)
(* routes/workspaces.py rotate_api_token and get_usage, and export_domains *)
(* of routes/exports.py as called by a user for a workspace id.            *)
(***************************************************************************)
\* get_password_hash(plaintext)
get_password_hash(plaintext) == "hash:" \o plaintext

\* rotate_api_token: _generate_api_token() gives a token unlike the earlier
\* ones; its hash is stored (the display prefix goes with it) and the
\* plaintext is returned
rotate_api_token(user, workspace_id) ==
    LET owned == get_owned_workspace(workspace_id, user)
        plaintext == "cg_" \o ToString(issued + 1)
    IN  /\ Issue
        /\ IF ~owned.ok THEN response' = Refusal(owned) /\ UNCHANGED db
           ELSE /\ db' = [db EXCEPT ![workspace_id].api_token_hash =
                                       get_password_hash(plaintext)]
                /\ response' = [status_code |-> 200, token |-> plaintext]
        /\ UNCHANGED <<pureVars, taskVars, alerts, founding_member_count, now, req, hook,
                       result, delivered, servedLookups, servedExports, seats0,
                       applied, last>>

\* get_usage: TIER_LIMITS.get(ws.tier, TIER_LIMITS["free"])
get_usage(user, workspace_id) ==
    LET owned == get_owned_workspace(workspace_id, user)
        ws == db[workspace_id]
        limits == IF ws.tier \in KnownTiers THEN TIER_LIMITS[ws.tier]
                  ELSE TIER_LIMITS["free"]
    IN  /\ response' =
              IF ~owned.ok THEN Refusal(owned)
              ELSE [status_code |-> 200,
                    usage |-> [tier |-> ws.tier,
                               billing_cycle_start |-> ws.billing_cycle_start,
                               domain_lookups |->
                                   [used |-> ws.domain_lookups_used,
                                    limit |-> limits.max_lookups_per_month],
                               export_credits |->
                                   [used |-> ws.export_credits_used,
                                    limit |-> limits.max_export_credits_per_month],
                               api_calls |->
                                   [used |-> ws.api_calls_used,
                                    limit |-> limits.max_api_calls_per_month]]]
        /\ UNCHANGED <<apiFrame, issued, taskVars, alerts>>

\* export_domains: _get_owned_workspace, then the gate and the credit
export_domains(r, user, workspace_id) ==
    LET owned == get_owned_workspace(workspace_id, user)
    IN  IF owned.ok THEN ExportBegin(r, workspace_id)
        ELSE /\ req[r].pc = "idle"
             /\ Issue
             /\ Respond(r, Refusal(owned))
             /\ UNCHANGED <<pureVars, taskVars, alerts, db, founding_member_count, now,
                            hook, result, delivered, servedLookups, servedExports,
                            seats0, applied, last>>

\* no endpoint registered, no task queued
InitNoTask ==
    /\ endpoint = NoEndpoint
    /\ task = NoTask
    /\ uuids = 0
    /\ sent = <<>>
    /\ receiver = [seen |-> {}, processed |-> 0]

\* no alert stored, no API request answered
InitNoApi ==
    /\ alerts = {}
    /\ response = NoResponse

(***************************************************************************)
(* Specifications.                                                         *)
(*   Spec     requests and webhook deliveries, all workers concurrent      *)
(*   SpecReq  concurrent API requests, no billing event                    *)
(*   SpecHooks concurrent webhook deliveries, no API request               *)
(*   SpecSeq  the same operations one after the other                      *)
(*   SpecHooksSeq webhook deliveries one after the other, no API request   *)
(*   SpecReceiver the same, with requests whose signature does not verify  *)
(*   SpecCycle concurrent API requests and invoice.paid deliveries         *)
(*   SpecAlerts the owners' routes of routes/alerts.py and the billing     *)
(*            events that change the tier                                  *)
(*   SpecApi  every workspace-scoped route called by owners and by others  *)
(*   SpecPure the pure functions of tier_gating.py                         *)
(*   SpecDeliver one deliver_webhook task and the routes on its endpoint   *)
(*   SpecWebhooks the routes of routes/webhooks.py called by any user, and *)
(*            the deliveries of the test pings, each answered 2xx          *)
(*   SpecPing the owner's updates and test pings of an endpoint, and the   *)
(*            deliveries of the pings with their retries                   *)
(***************************************************************************)
AllIdle ==
    /\ \A r \in RequestWorkers : req[r].pc = "idle"
    /\ \A h \in HookWorkers : hook[h].pc = "idle"

ReqBegin ==
    \E r \in RequestWorkers :
        \/ \E w \in Workspaces, found \in BOOLEAN : LookupBegin(r, w, found)
        \/ \E found \in BOOLEAN : LookupNoWorkspace(r, found)
        \/ \E w \in Workspaces : ExportBegin(r, w)

ReqStep == \E r \in RequestWorkers : LookupCommit(r) \/ ExportCommit(r)

HookBegin == \E h \in HookWorkers, ev \in StripeEvents : process_webhook_event(h, ev)

HookStep ==
    \E h \in HookWorkers :
        \/ CheckoutReadCount(h)
        \/ CheckoutIncrement(h)
        \/ \E ok \in BOOLEAN : CheckoutFinish(h, ok)
        \/ Commit(h)

Init == InitSystem /\ call = [op |-> NoneStr] /\ ret = NoRet /\ InitNoTask /\ InitNoApi

Next == ReqBegin \/ ReqStep \/ HookBegin \/ HookStep
Spec == Init /\ [][Next]_vars

NextHooks == HookBegin \/ HookStep
SpecHooks == Init /\ [][NextHooks]_vars

NextHooksSeq ==
    \/ AllIdle /\ HookBegin
    \/ HookStep
SpecHooksSeq == Init /\ [][NextHooksSeq]_vars

ReceiverBegin ==
    \E h \in HookWorkers, ev \in StripeEvents, signature \in Signatures :
        stripe_webhook(h, ev, signature)

NextReceiver ==
    \/ AllIdle /\ ReceiverBegin
    \/ HookStep
SpecReceiver == Init /\ [][NextReceiver]_vars

NextReq == ReqBegin \/ ReqStep
SpecReq == Init /\ [][NextReq]_vars

NextSeq ==
    \/ AllIdle /\ ReqBegin
    \/ AllIdle /\ HookBegin
    \/ ReqStep
    \/ HookStep
SpecSeq == Init /\ [][NextSeq]_vars

\* the events that start a billing cycle
CycleEvents == {ev \in StripeEvents : ev.type = "invoice.paid"}

CycleBegin ==
    \E h \in HookWorkers, ev \in CycleEvents : process_webhook_event(h, ev)

CycleStep == \E h \in HookWorkers : Commit(h)

NextCycle == ReqBegin \/ ReqStep \/ CycleBegin \/ CycleStep
SpecCycle == Init /\ [][NextCycle]_vars

InitPureSystem ==
    InitSystemAt(0, 0, FOUNDING_MEMBER_CAP - 2) /\ InitPure /\ InitNoTask /\ InitNoApi

\* one task queued for the endpoint wh_1, whose row is in any state
InitDeliver ==
    /\ InitSubscribed(StarterWorkspace)
    /\ \E row \in EndpointRows \cup {NoEndpoint},
          event_type \in EventTypes, payload \in Payloads :
            /\ endpoint = row
            /\ task = QueuedTask("wh_1", event_type, payload)
    /\ uuids = 0
    /\ sent = <<>>
    /\ receiver = [seen |-> {}, processed |-> 0]
    /\ InitNoApi

NextDeliver ==
    \/ \E outcome \in HttpOutcomes : deliver_webhook(outcome)
    \/ \E payload \in UpdatePayloads : update_webhook("u1", "w1", "wh_1", payload)
    \/ delete_webhook("u1", "w1", "wh_1")
SpecDeliver == InitDeliver /\ [][NextDeliver]_vars
SpecPure == InitPureSystem /\ [][NextPure]_vars

\* w2 after customer.subscription.updated has moved it to professional
UpgradedWorkspace ==
    [StarterWorkspace EXCEPT
        !.tier = "professional",
        !.stripe_subscription_status = "past_due",
        !.stripe_price_id = "price_pro_monthly"]

\* the webhook ids of the requests: the one of the stored row and one of
\* no row
WebhookIds ==
    {"wh_0"} \cup (IF endpoint.exists THEN {endpoint.webhook_id} ELSE {})

\* no endpoint registered yet
InitWebhooks ==
    /\ \E row2 \in {StarterWorkspace, UpgradedWorkspace} : InitSubscribed(row2)
    /\ InitNoTask
    /\ InitNoApi

\* who calls for which workspace: the owner, another user, the owner of
\* another workspace for their own, and a user for a workspace of no row
Callers == {<<"u1", "w1">>, <<"u2", "w1">>, <<"u2", "w2">>, <<"u1", "w9">>}

NextWebhooks ==
    \/ \E c \in Callers : list_webhooks(c[1], c[2])
    \/ \E c \in Callers, payload \in CreatePayloads, signing_secret \in Secrets :
          create_webhook(c[1], c[2], payload, signing_secret)
    \/ \E c \in Callers, webhook_id \in WebhookIds : get_webhook(c[1], c[2], webhook_id)
    \/ \E c \in Callers, webhook_id \in WebhookIds,
          payload \in UpdatePayloads \cup {PingPayload} :
          update_webhook(c[1], c[2], webhook_id, payload)
    \/ \E c \in Callers, webhook_id \in WebhookIds : delete_webhook(c[1], c[2], webhook_id)
    \/ \E c \in Callers, webhook_id \in WebhookIds : test_webhook(c[1], c[2], webhook_id)
    \/ deliver_webhook("2xx")
SpecWebhooks == InitWebhooks /\ [][NextWebhooks]_vars

\* the owner of each workspace calling for it
Owners == {<<owner_id[w], w>> : w \in Workspaces}

\* the alert ids of the requests: those of the stored rows and one of no row
AlertIds == {"al_0"} \cup {a.alert_id : a \in alerts}

\* the events that change the tier of a subscribed workspace
TierEvents == {ev \in StripeEvents : ev.id \in {"evt_upd2", "evt_del2"}}

NextAlerts ==
    \/ \E c \in Owners : list_alerts(c[1], c[2])
    \/ \E c \in Owners, alert_type \in AlertTypes : create_alert(c[1], c[2], alert_type)
    \/ \E c \in Owners, alert_id \in AlertIds : get_alert(c[1], c[2], alert_id)
    \/ \E c \in Owners, alert_id \in AlertIds, alert_type \in AlertTypes :
          update_alert(c[1], c[2], alert_id, alert_type)
    \/ \E c \in Owners, alert_id \in AlertIds : toggle_alert(c[1], c[2], alert_id)
    \/ \E c \in Owners, alert_id \in AlertIds : delete_alert(c[1], c[2], alert_id)
    \/ \E ev \in TierEvents : process_webhook_event("h1", ev)
    \/ Commit("h1")
SpecAlerts == InitWebhooks /\ [][NextAlerts]_vars

\* the workspace-scoped routes as called by one user for one workspace id
WebhookRoutes(user, workspace_id) ==
    \/ list_webhooks(user, workspace_id)
    \/ \E payload \in {[url |-> Url, event_types |-> {}]}, signing_secret \in {"whsec_a"} :
          create_webhook(user, workspace_id, payload, signing_secret)
    \/ \E webhook_id \in WebhookIds : get_webhook(user, workspace_id, webhook_id)
    \/ \E webhook_id \in WebhookIds, payload \in {[is_active |-> FALSE], PingPayload} :
          update_webhook(user, workspace_id, webhook_id, payload)
    \/ \E webhook_id \in WebhookIds : delete_webhook(user, workspace_id, webhook_id)
    \/ \E webhook_id \in WebhookIds : test_webhook(user, workspace_id, webhook_id)

AlertRoutes(user, workspace_id) ==
    \/ list_alerts(user, workspace_id)
    \/ create_alert(user, workspace_id, "new_domain")
    \/ \E alert_id \in AlertIds : get_alert(user, workspace_id, alert_id)
    \/ \E alert_id \in AlertIds, alert_type \in AlertTypes :
          update_alert(user, workspace_id, alert_id, alert_type)
    \/ \E alert_id \in AlertIds : toggle_alert(user, workspace_id, alert_id)
    \/ \E alert_id \in AlertIds : delete_alert(user, workspace_id, alert_id)

WorkspaceRoutes(user, workspace_id) ==
    \/ rotate_api_token(user, workspace_id)
    \/ get_usage(user, workspace_id)
    \/ export_domains("r1", user, workspace_id)
    \/ ExportCommit("r1")

NextApi ==
    \E c \in Callers :
        \/ WebhookRoutes(c[1], c[2])
        \/ AlertRoutes(c[1], c[2])
        \/ WorkspaceRoutes(c[1], c[2])
\* both workspaces on a tier with webhooks and alerts, nothing stored yet
InitApi == InitSubscribed(UpgradedWorkspace) /\ InitNoTask /\ InitNoApi
SpecApi == InitApi /\ [][NextApi]_vars

\* the endpoint wh_1 of w1 registered, no task queued
InitPing ==
    /\ InitSubscribed(StarterWorkspace)
    /\ endpoint \in EndpointRows
    /\ task = NoTask
    /\ uuids = 0
    /\ sent = <<>>
    /\ receiver = [seen |-> {}, processed |-> 0]
    /\ InitNoApi

NextPing ==
    \/ \E payload \in UpdatePayloads \cup {PingPayload} :
          update_webhook("u1", "w1", "wh_1", payload)
    \/ test_webhook("u1", "w1", "wh_1")
    \/ \E outcome \in {"2xx", "5xx"} : deliver_webhook(outcome)
SpecPing == InitPing /\ [][NextPing]_vars

(***************************************************************************)
(* Claims about the pure functions, checked under SpecPure.                *)
(***************************************************************************)
Masked == call.op = "mask" /\ ret # NoRet

\* The visibility policy the gating tables declare for a group at a
\* catalogue tier: hidden, an allow-list of sub-keys, or fully visible.
PolicyOf(tier, group) ==
    IF \/ tier = "free" /\ group \in HIDDEN_FOR_FREE
       \/ tier = "starter" /\ group \in HIDDEN_FOR_STARTER
    THEN "hidden"
    ELSE IF FIELD_GATING[group][tier].none THEN "full" ELSE "allow_list"

\* sub-keys of a blob (none for None)
KeysOf(blob) == IF blob.t = "dict" THEN DOMAIN blob.kv ELSE {}

\* C5: masking is total and leaks nothing.  For every known tier, every
\* field-group and every input record, the value returned for the group is
\* null when the group is hidden for the tier, carries only keys of the
\* tier's allow-list when the group has one, and equals the source blob
\* when the group is fully visible.
C5_MaskingTotal ==
    (Masked /\ Lower(call.tier) \in KnownTiers) =>
        \A g \in Groups :
            LET policy == PolicyOf(Lower(call.tier), g)
                out == ret.kv[g]
            IN  /\ g \in DOMAIN ret.kv
                /\ policy = "hidden" => out = Null
                /\ policy = "allow_list" =>
                      /\ out.t \in {"null", "dict"}
                      /\ KeysOf(out) \subseteq FIELD_GATING[g][Lower(call.tier)].keys
                /\ policy = "full" => out = Get(call.domain_data, g)

C5_Witness ==
    /\ Masked /\ call.tier = "free"
    /\ KeysOf(Get(call.domain_data, "ecommerce")) = {"platform", "internal_notes"}
    /\ KeysOf(ret.kv["ecommerce"]) = {"platform"}

\* C6: the companion flag <group>_gated is set exactly when the group is
\* hidden for the tier (the value is then null, whatever the source held)
\* or the group has an allow-list and the source blob carries a key outside
\* it (the allowed keys that are present are still returned).
C6_GatedFlagExact ==
    (Masked /\ Lower(call.tier) \in KnownTiers) =>
        \A g \in Groups :
            LET policy == PolicyOf(Lower(call.tier), g)
                allowed == FIELD_GATING[g][Lower(call.tier)].keys
                src == Get(call.domain_data, g)
                flagged == GatedKey(g) \in DOMAIN ret.kv
            IN  /\ flagged <=>
                      \/ policy = "hidden"
                      \/ policy = "allow_list" /\ KeysOf(src) \ allowed # {}
                /\ flagged => ret.kv[GatedKey(g)] = True
                /\ (flagged /\ policy = "hidden") => ret.kv[g] = Null
                /\ (flagged /\ policy = "allow_list") =>
                      \A k \in KeysOf(src) \cap allowed :
                          /\ k \in KeysOf(ret.kv[g])
                          /\ ret.kv[g].kv[k] = src.kv[k]

C6_Witness ==
    /\ Masked /\ call.tier = "starter"
    /\ KeysOf(Get(call.domain_data, "seo_metrics")) = {"domain_rating", "internal_notes"}
    /\ "seo_metrics_gated" \in DOMAIN ret.kv
    /\ "domain_rating" \in KeysOf(ret.kv["seo_metrics"])
    /\ "discovery_gated" \notin DOMAIN ret.kv

\* C7: an unrecognized tier name fails closed.  Masking under it returns
\* the projection of "free", and a TierGate built from it decides every
\* check as a TierGate built from "free" does.
C7_UnknownTierFailsClosed ==
    (ret # NoRet /\ Lower(call.tier) \notin KnownTiers) =>
        CASE call.op = "mask" ->
                ret = Dict(mask_domain_by_tier(call.domain_data, "free"))
          [] call.op = "require_feature" ->
                ret.ok = require_feature(TierGate("free"), call.feature).ok
          [] call.op = "check_row_limit" ->
                ret.ok = check_row_limit(TierGate("free"), call.requested).ok
          [] call.op = "check_lookup_quota" ->
                ret.ok = check_lookup_quota(TierGate("free"), call.used).ok
          [] call.op = "check_export_credits" ->
                ret.ok = check_export_credits(TierGate("free"), call.used,
                                              call.requested).ok
          [] call.op = "check_alert_limit" ->
                ret.ok = check_alert_limit(TierGate("free"), call.current_count).ok
          [] call.op = "clamp_page_size" ->
                ret.value = clamp_page_size(TierGate("free"), call.requested,
                                            call.default)

C7_Witness ==
    /\ Masked /\ call.tier = "Gold"
    /\ Truthy(Get(call.domain_data, "intent_layer"))
    /\ ret.kv["intent_layer"] = Null
    /\ "intent_layer_gated" \in DOMAIN ret.kv

\* C8: for every tier name, known or not, and every input record, each
\* always-visible scalar field is present in the projection with exactly
\* the value it has in the input.
C8_AlwaysVisibleUnchanged ==
    Masked =>
        \A key \in ALWAYS_VISIBLE :
            /\ key \in DOMAIN ret.kv
            /\ key \in DOMAIN call.domain_data => ret.kv[key] = call.domain_data[key]

C8_Witness ==
    /\ Masked /\ call.tier = "FREE"
    /\ ALWAYS_VISIBLE \subseteq DOMAIN call.domain_data
    /\ ret.kv["tld"] = Str("b")
    /\ ret.kv["domain"] = Str("b")

(***************************************************************************)
(* Claims about the usage ledger and the promotional-seat counter.         *)
(***************************************************************************)
LookupLimit(w) == TIER_LIMITS[ResolveTier(db[w].tier)].max_lookups_per_month

Counters == {"domain_lookups_used", "export_credits_used", "api_calls_used"}

FoundingMembers == {w \in Workspaces : db[w].founding_member}

\* C1: for a workspace whose tier has a finite monthly lookup limit L, the
\* number of single-domain lookups served in one billing cycle is at most L
\* under every interleaving of concurrent lookup requests (SpecReq, where no
\* billing event starts a new cycle).
C1_ServedLookupsWithinLimit ==
    \A w \in Workspaces :
        LookupLimit(w) # None => servedLookups[w] <= LookupLimit(w)

\* C2: no usage increment is lost: once N concurrent lookup (export) requests
\* of a workspace have been served, with no reset in between (SpecReq), its
\* domain_lookups_used (export_credits_used) has grown by exactly N.
C2_NoLostIncrement ==
    (\A r \in RequestWorkers : req[r].pc = "idle") =>
        \A w \in Workspaces :
            /\ db[w].domain_lookups_used = servedLookups[w]
            /\ db[w].export_credits_used = servedExports[w]

\* C3: when the founding checkouts of two distinct workspaces are processed
\* concurrently, each delivered once, while one seat remains, exactly one of
\* the workspaces ends up marked founding_member; and as long as no checkout
\* event is delivered twice the seat counter never exceeds
\* FOUNDING_MEMBER_CAP (SpecHooks).
C3_PromotionalCap ==
    (delivered["evt_co1"] <= 1 /\ delivered["evt_co2"] <= 1) =>
        /\ founding_member_count <= FOUNDING_MEMBER_CAP
        /\ ( /\ seats0 = FOUNDING_MEMBER_CAP - 1
             /\ delivered["evt_co1"] = 1
             /\ delivered["evt_co2"] = 1
             /\ \A h \in HookWorkers : hook[h].pc = "idle" )
           => Cardinality(FoundingMembers) = FOUNDING_MEMBER_CAP - seats0

BillingState(row) ==
    <<row.stripe_customer_id, row.stripe_subscription_id,
      row.stripe_subscription_status, row.tier, row.stripe_price_id,
      row.founding_member>>

\* C4: applying the same checkout-completed event twice in sequence leaves
\* the workspace's billing fields as the first application left them, and the
\* seat counter where the first application left it (SpecSeq).
C4_CheckoutReplayIdempotent ==
    (last.n = 2 /\ last.id \in {"evt_co1", "evt_co2"}) =>
        /\ BillingState(db[last.w]) = BillingState(last.row)
        /\ founding_member_count = last.count

\* C9: every usage counter is >= 0 in every state, and no step within a
\* billing cycle (billing_cycle_start unchanged) makes a counter smaller
\* (SpecReq: lookups and exports only).
C9_CountersMonotoneInCycle ==
    [][\A w \in Workspaces, c \in Counters :
          /\ db'[w][c] >= 0
          /\ db'[w].billing_cycle_start = db[w].billing_cycle_start
                => db'[w][c] >= db[w][c]]_vars

\* C10: the counters are reset once per invoice-paid event: the commit of
\* a handler for an invoice-paid event that has been applied before leaves
\* the usage recorded since then in place (SpecSeq).
C10_ResetOncePerEvent ==
    [][\A h \in HookWorkers :
          ( /\ hook[h].pc = "commit"
            /\ hook'[h].pc = "idle"
            /\ hook[h].ev.type = "invoice.paid"
            /\ hook[h].ev.id \in applied )
          => \A c \in Counters : db'[hook[h].w][c] = db[hook[h].w][c]]_vars

(***************************************************************************)
(* Claims about the billing state machine and the webhook handlers.        *)
(***************************************************************************)
\* the subscription status enumeration; NoneStr is "none (unset)"
StatusEnum == {NoneStr, "active", "past_due", "cancelled"}

StatusEdges ==
    { <<NoneStr, "active">>, <<"active", "past_due">>, <<"active", "cancelled">>,
      <<"past_due", "active">>, <<"past_due", "cancelled">> }

\* the step is taken by a checkout-completed handler working on workspace w
CheckoutStep(w) ==
    \E h \in HookWorkers :
        /\ hook[h].pc \in {"checkout_increment", "checkout_retrieve"}
        /\ hook[h].w = w
        /\ hook'[h] # hook[h]

\* C11: every change of a workspace's subscription status between values of
\* the enumeration follows an edge of the billing state machine; a cancelled
\* workspace keeps status cancelled and its tier until a checkout-completed
\* handler activates it again (SpecHooksSeq).
C11_StatusFollowsEdges ==
    [][\A w \in Workspaces :
          LET old == db[w].stripe_subscription_status
              new == db'[w].stripe_subscription_status
          IN  (old \in StatusEnum /\ new \in StatusEnum /\ ~CheckoutStep(w)) =>
                /\ new # old => <<old, new>> \in StatusEdges
                /\ old = "cancelled" => db'[w].tier = db[w].tier]_vars

\* C12: in every reachable state the subscription status of every workspace
\* is one of none (unset), active, past_due, cancelled (SpecHooksSeq).
C12_StatusInEnumeration ==
    \A w \in Workspaces : db[w].stripe_subscription_status \in StatusEnum

ReplayTypes ==
    {"customer.subscription.updated", "customer.subscription.deleted",
     "invoice.paid", "invoice.payment_failed"}

\* what a replay has to preserve: tier, status, processor identifiers,
\* promotional flag and usage counters
ReplayState(row) ==
    <<row.tier, row.stripe_subscription_status, row.stripe_customer_id,
      row.stripe_subscription_id, row.stripe_price_id, row.founding_member,
      row.domain_lookups_used, row.export_credits_used, row.api_calls_used>>

\* the step belongs to a delivery of the event that was applied last: the
\* delivery starts (and may return at once), or its handler commits
ReplayOfLast ==
    /\ last.id \in EventIds
    /\ \/ delivered'[last.id] # delivered[last.id]
       \/ \E h \in HookWorkers :
            hook[h].pc = "commit" /\ hook[h].ev.id = last.id /\ hook'[h].pc = "idle"

\* C13: processing a subscription-updated, subscription-deleted,
\* invoice-paid or invoice-payment-failed event again, immediately after it
\* has been applied, changes neither tier, status, processor identifiers,
\* promotional flag or usage counters of any workspace nor the seat counter,
\* and raises no error (SpecHooksSeq).
C13_HandlersReplaySafe ==
    [][(ReplayOfLast /\ \E ev \in StripeEvents :
                            ev.id = last.id /\ ev.type \in ReplayTypes) =>
          /\ \A w \in Workspaces : ReplayState(db'[w]) = ReplayState(db[w])
          /\ founding_member_count' = founding_member_count
          /\ result'.action # "error"]_vars

C13_Witness ==
    /\ last.id = "evt_upd2" /\ last.n = 2
    /\ delivered["evt_upd2"] = 2
    /\ db["w2"].tier = "professional"
    /\ db["w2"].stripe_subscription_status = "past_due"
    /\ result.action = "tier_updated"

\* C14: a checkout-completed handler that finishes for a resolvable workspace
\* (the processor having answered the price lookup) has set customer id and
\* subscription id from the event, status active and the tier mapped from
\* the subscription's price, free when unmapped; for a promotional event
\* started with the seat counter below the cap the workspace is marked
\* founding_member and the counter has grown by one, and started at the cap
\* the checkout is activated all the same with flag and counter unchanged
\* (SpecHooksSeq).
C14_CheckoutEffect ==
    [][\A h \in HookWorkers :
          ( /\ hook[h].pc = "checkout_retrieve"
            /\ hook'[h].pc = "idle"
            /\ result'.action # "error" ) =>
            LET ev == hook[h].ev
                start == hook[h].start
                row == db'[hook[h].w]
                price_id == RetrievePrice(ev.subscription)
            IN  /\ result'.action = "checkout_activated"
                /\ row.stripe_customer_id = ev.customer
                /\ row.stripe_subscription_id = ev.subscription
                /\ row.stripe_subscription_status = "active"
                /\ row.stripe_price_id = price_id
                /\ row.tier = IF price_id \in DOMAIN PriceToTierMap
                              THEN PriceToTierMap[price_id] ELSE "free"
                /\ (ev.founding_member = "true" /\ start.count < FOUNDING_MEMBER_CAP)
                      => /\ row.founding_member
                         /\ founding_member_count' = start.count + 1
                /\ (ev.founding_member # "true" \/ start.count >= FOUNDING_MEMBER_CAP)
                      => /\ row.founding_member = start.row.founding_member
                         /\ founding_member_count' = start.count]_vars

\* the last seat went to w1; the founding checkout of w2 was activated
\* without the flag
C14_Witness ==
    /\ seats0 = FOUNDING_MEMBER_CAP - 1
    /\ founding_member_count = FOUNDING_MEMBER_CAP
    /\ db["w1"].founding_member
    /\ ~db["w2"].founding_member
    /\ db["w2"].stripe_subscription_id = "sub_2f"
    /\ db["w2"].tier = "professional"
    /\ last.id = "evt_co2"
    /\ result.action = "checkout_activated"

\* the handler h commits, having handled an event of the given type
Commits(h, type) ==
    hook[h].pc = "commit" /\ hook[h].ev.type = type /\ hook'[h].pc = "idle"

UsageCounters(row) ==
    <<row.domain_lookups_used, row.export_credits_used, row.api_calls_used>>

\* C15: a subscription-updated handler that found its workspace sets the
\* tier mapped from the event's price (free when unmapped) and the event's
\* status, and leaves usage counters, customer id, subscription id,
\* promotional flag and seat counter as they were (SpecHooksSeq).
C15_SubscriptionUpdatedEffect ==
    [][\A h \in HookWorkers : Commits(h, "customer.subscription.updated") =>
          LET ev == hook[h].ev
              before == hook[h].start.row
              row == db'[hook[h].w]
          IN  /\ row.tier = IF ev.price \in DOMAIN PriceToTierMap
                            THEN PriceToTierMap[ev.price] ELSE "free"
              /\ row.stripe_subscription_status = ev.status
              /\ UsageCounters(row) = UsageCounters(before)
              /\ row.stripe_customer_id = before.stripe_customer_id
              /\ row.stripe_subscription_id = before.stripe_subscription_id
              /\ row.founding_member = before.founding_member
              /\ founding_member_count' = hook[h].start.count]_vars

C15_Witness ==
    /\ last.id = "evt_upd2t"
    /\ db["w2"].tier = "free"
    /\ db["w2"].stripe_subscription_status = "trialing"
    /\ db["w2"].export_credits_used > 0
    /\ db["w2"].stripe_subscription_id = "sub_2"

\* C16: a subscription-deleted handler that found its workspace sets tier
\* free and status cancelled and clears subscription id and price id, and
\* leaves customer id, usage counters, billing-cycle start, promotional flag
\* and seat counter as they were (SpecHooksSeq).
C16_SubscriptionDeletedEffect ==
    [][\A h \in HookWorkers : Commits(h, "customer.subscription.deleted") =>
          LET before == hook[h].start.row
              row == db'[hook[h].w]
          IN  /\ row.tier = "free"
              /\ row.stripe_subscription_status = "cancelled"
              /\ row.stripe_subscription_id = NoneStr
              /\ row.stripe_price_id = NoneStr
              /\ row.stripe_customer_id = before.stripe_customer_id
              /\ UsageCounters(row) = UsageCounters(before)
              /\ row.billing_cycle_start = before.billing_cycle_start
              /\ row.founding_member = before.founding_member
              /\ founding_member_count' = hook[h].start.count]_vars

C16_Witness ==
    /\ last.id = "evt_del2"
    /\ db["w2"].tier = "free"
    /\ db["w2"].stripe_subscription_status = "cancelled"
    /\ db["w2"].stripe_price_id = NoneStr
    /\ db["w2"].stripe_customer_id = "cus_2"
    /\ db["w2"].export_credits_used > 0

\* C17: an invoice-paid handler that found its workspace sets the three
\* usage counters to zero and moves the billing-cycle start to the time it
\* read, and leaves tier, status, customer id, subscription id, price id and
\* promotional flag as they were (SpecHooksSeq).
C17_InvoicePaidEffect ==
    [][\A h \in HookWorkers : Commits(h, "invoice.paid") =>
          LET before == hook[h].start.row
              row == db'[hook[h].w]
          IN  /\ UsageCounters(row) = <<0, 0, 0>>
              /\ row.billing_cycle_start # before.billing_cycle_start
              /\ row.billing_cycle_start = now - 1
              /\ row.tier = before.tier
              /\ row.stripe_subscription_status = before.stripe_subscription_status
              /\ row.stripe_customer_id = before.stripe_customer_id
              /\ row.stripe_subscription_id = before.stripe_subscription_id
              /\ row.stripe_price_id = before.stripe_price_id
              /\ row.founding_member = before.founding_member]_vars

C17_Witness ==
    /\ last.id = "evt_inv2"
    /\ servedExports["w2"] > 0
    /\ db["w2"].export_credits_used = 0
    /\ db["w2"].billing_cycle_start > 0
    /\ db["w2"].tier = "starter"

\* C18: an invoice-payment-failed handler that found its workspace sets the
\* status to past_due and changes no other field of the workspace
\* (SpecHooksSeq).
C18_PaymentFailedEffect ==
    [][\A h \in HookWorkers : Commits(h, "invoice.payment_failed") =>
          LET before == hook[h].start.row
              row == db'[hook[h].w]
          IN  /\ row.stripe_subscription_status = "past_due"
              /\ row = [before EXCEPT !.stripe_subscription_status = "past_due"]]_vars

C18_Witness ==
    /\ last.id = "evt_fail2"
    /\ db["w2"].stripe_subscription_status = "past_due"
    /\ db["w2"].tier = "starter"
    /\ db["w2"].export_credits_used > 0

\* a delivery of event ev starts in the step
Delivered(ev) == delivered'[ev.id] = delivered[ev.id] + 1

\* C19: process_webhook_event on an event of a type outside the five
\* handled ones returns action "ignored" with the event type, and changes no
\* workspace and not the seat counter (SpecHooksSeq).
C19_UnknownTypeIgnored ==
    [][\A ev \in StripeEvents :
          (Delivered(ev) /\ ev.type \notin HandledTypes) =>
              /\ result' = [action |-> "ignored", event_type |-> ev.type]
              /\ db' = db
              /\ founding_member_count' = founding_member_count
              /\ hook' = hook]_vars

C19_Witness ==
    /\ delivered["evt_new"] = 1
    /\ result = [action |-> "ignored", event_type |-> "customer.created"]
    /\ last.id = "evt_inv2"

\* no workspace matches the reference the event carries
NoWorkspaceMatches(ev) ==
    CASE ev.type = "checkout.session.completed" ->
            ev.client_reference_id \notin Workspaces
      [] ev.type \in {"customer.subscription.updated",
                      "customer.subscription.deleted"} ->
            \A w \in Workspaces : db[w].stripe_subscription_id # ev.subscription
      [] ev.type \in {"invoice.paid", "invoice.payment_failed"} ->
            \A w \in Workspaces : db[w].stripe_customer_id # ev.customer
      [] OTHER -> FALSE

C21_VerifiedAlwaysAcknowledged ==
    result.action \notin Rejections => WebhookResponseOf(result) = 200

\* C22: a request whose signature header is missing or does not verify is
\* answered with a client error and is not processed: no delivery is
\* handed to process_webhook_event, no workspace column and no seat counter
\* changes.
C22_UnverifiedRejected ==
    [][(result' # result /\ result'.action \in Rejections) =>
        /\ WebhookResponseOf(result') = 400
        /\ delivered' = delivered
        /\ hook' = hook
        /\ db' = db
        /\ founding_member_count' = founding_member_count
        /\ applied' = applied]_vars

C22_Witness ==
    /\ result.action = "Invalid signature"
    /\ delivered["evt_co1"] = 1
    /\ db["w1"].tier = "professional"

(***************************************************************************)
(* Claims about the quota checks of TierGate, checked under SpecPure.      *)
(***************************************************************************)
Returned(op) == call.op = op /\ ret # NoRet

\* the limits the gate of the call works with
LimitsOfCall == TierGate(call.tier).limits

\* C23: for a tier with a finite limit L, check_lookup_quota(used) and
\* check_alert_limit(used) pass for every used < L and fail for every
\* used >= L, reporting the limit and the current tier; with a null limit
\* they pass for every used.  On the free tier check_lookup_quota(24)
\* passes and check_lookup_quota(25) fails with limit 25 and used 25.
C23_QuotaBoundary ==
    /\ Returned("check_lookup_quota") =>
          LET L == LimitsOfCall.max_lookups_per_month
          IN  /\ (L = None \/ call.used < L) => ret = Pass
              /\ (L # None /\ call.used >= L) =>
                    /\ ~ret.ok
                    /\ ret.limit = L
                    /\ ret.current_tier = Lower(call.tier)
              /\ (call.tier = "free" /\ call.used = 24) => ret = Pass
              /\ (call.tier = "free" /\ call.used = 25) =>
                    ~ret.ok /\ ret.limit = 25 /\ ret.used = 25
    /\ Returned("check_alert_limit") =>
          LET L == LimitsOfCall.max_alerts
          IN  /\ (L = None \/ call.current_count < L) => ret = Pass
              /\ (L # None /\ call.current_count >= L) =>
                    /\ ~ret.ok
                    /\ ret.limit = L
                    /\ ret.current_tier = Lower(call.tier)

C23_Witness ==
    /\ Returned("check_lookup_quota")
    /\ call.tier = "free" /\ call.used = 25
    /\ ~ret.ok

\* C24: check_export_credits(used, requested) fails with the feature error
\* (403) for every used and requested on a tier without can_export_csv;
\* on a tier with it, it fails with the export-credits error (429) exactly
\* when the limit is non-null and used + requested > limit, and passes
\* otherwise.
C24_ExportCreditsOrder ==
    Returned("check_export_credits") =>
        LET L == LimitsOfCall.max_export_credits_per_month
            over == L # None /\ call.used + call.requested > L
        IN  IF ~LimitsOfCall.can_export_csv
            THEN /\ ~ret.ok
                 /\ ret.status_code = 403
                 /\ ret.code = "feature_gated"
            ELSE IF over
            THEN /\ ~ret.ok
                 /\ ret.status_code = 429
                 /\ ret.code = "export_credits_exhausted"
            ELSE ret = Pass

C24_Witness ==
    /\ Returned("check_export_credits")
    /\ ~LimitsOfCall.can_export_csv
    /\ call.used + call.requested > LimitsOfCall.max_export_credits_per_month
    /\ ret.status_code = 403

\* C25: clamp_page_size(requested, default) never fails and returns
\* min(e, limit), e being requested when requested > 0 and default
\* otherwise; with a null row limit it returns e.  For a finite row limit
\* and a positive default the result lies between 1 and the limit
\* (starter with requested 50000 returns 5000).
C25_ClampPageSize ==
    Returned("clamp_page_size") =>
        LET L == LimitsOfCall.max_rows_per_view
            e == IF call.requested > 0 THEN call.requested ELSE call.default
        IN  /\ ret.ok
            /\ ret.value <= e
            /\ L = None => ret.value = e
            /\ L # None => ret.value <= L /\ ret.value \in {e, L}
            /\ (L # None /\ call.default > 0) => ret.value \in 1..L
            /\ (call.tier = "starter" /\ call.requested = 50000) => ret.value = 5000

C25_Witness ==
    /\ Returned("clamp_page_size")
    /\ call.tier = "starter" /\ call.requested = 50000
    /\ ret.value = 5000

\* C26: require_feature(flag) fails with the feature-gated error (403)
\* carrying the flag name and the current tier exactly when the tier's
\* value for the flag is false, and passes when it is true; a flag name
\* the tier definition does not declare counts as false and fails.
C26_RequireFeature ==
    Returned("require_feature") =>
        LET granted == call.feature \in FeatureFlags /\ LimitsOfCall[call.feature]
        IN  IF granted THEN ret = Pass
            ELSE /\ ~ret.ok
                 /\ ret.status_code = 403
                 /\ ret.code = "feature_gated"
                 /\ ret.feature = call.feature
                 /\ ret.current_tier = Lower(call.tier)

C26_Witness ==
    /\ Returned("require_feature")
    /\ call.feature \notin FeatureFlags
    /\ Lower(call.tier) = "enterprise"
    /\ ~ret.ok

(***************************************************************************)
(* Claims about the webhook dispatcher, checked under SpecDeliver.         *)
(***************************************************************************)
\* the step is one execution of the task body
Executes == uuids' = uuids + 1

\* the step posts one HTTP request
Posts == Len(sent') = Len(sent) + 1

\* C27: deliver_webhook makes no HTTP call and ends in the terminal outcome
\* "skipped", with no retry and no error, whenever the endpoint does not
\* exist, is inactive, or has a non-empty set of subscribed event types
\* that lacks the event type; an endpoint with an empty subscription set
\* receives every event type.
C27_SkipsWithoutCall ==
    [][/\ (Executes /\ (\/ ~endpoint.exists
                         \/ ~endpoint.is_active
                         \/ /\ endpoint.event_types # {}
                            /\ task.event_type \notin endpoint.event_types)) =>
            /\ sent' = sent
            /\ receiver' = receiver
            /\ task'.status = "skipped"
            /\ task'.retries = task.retries
       /\ task.status = "skipped" => (task' = task /\ sent' = sent)
       /\ (Executes /\ endpoint.exists /\ endpoint.is_active
                    /\ endpoint.event_types = {}) =>
            /\ Posts
            /\ sent'[Len(sent')].headers.event = task.event_type]_vars

C27_Witness ==
    /\ task.status = "skipped"
    /\ task.reason = "endpoint_inactive"
    /\ Len(sent) = 1

\* C28: one deliver_webhook task makes at most 1 + max_retries HTTP
\* attempts, max_retries being the 4 of the task declaration, whatever the
\* receiving endpoint answers.
C28_AttemptsWithinDeclaredBudget ==
    Len(sent) <= 1 + deliver_webhook_options.max_retries

\* C29: all HTTP attempts made for one task, the first and every retry,
\* carry the same delivery identifier in body and header, so a receiver
\* that discards the identifiers it has seen processes the event at most
\* once.
C29_OneDeliveryIdPerTask ==
    /\ \A i, j \in DOMAIN sent :
          /\ sent[i].headers.delivery = sent[j].headers.delivery
          /\ sent[i].content[5] = sent[j].headers.delivery
    /\ receiver.processed <= 1

\* the bodies that differ from `body` in the event type, the delivery
\* identifier or the payload
OtherBodies(body) ==
    {json_dumps(et, Uuid(n), p) :
        et \in EventTypes, n \in 1..MaxExecutions, p \in Payloads} \ {body}

TierOrder == <<"free", "starter", "professional", "business", "enterprise">>

TierRank(tier) == CHOOSE i \in DOMAIN TierOrder : TierOrder[i] = tier

\* C40: field visibility is monotonic in the tier order: for every input
\* record and every field-group, the sub-keys returned at a tier are a
\* subset of the sub-keys returned at every higher tier, and a group that
\* is non-null at a tier is non-null at every higher tier.
C40_VisibilityMonotonic ==
    (Masked /\ Lower(call.tier) \in KnownTiers) =>
        \A higher \in KnownTiers :
            TierRank(Lower(call.tier)) < TierRank(higher) =>
                \A g \in Groups :
                    LET low == ret.kv[g]
                        high == MaskGroup(call.domain_data, higher, g).value
                    IN  /\ KeysOf(low) \subseteq KeysOf(high)
                        /\ low # Null => high # Null

C40_Witness ==
    /\ Masked /\ call.tier = "free"
    /\ KeysOf(Get(call.domain_data, "seo_metrics")) = {"domain_rating", "domain_authority"}
    /\ KeysOf(ret.kv["seo_metrics"]) = {"domain_rating"}
    /\ KeysOf(MaskGroup(call.domain_data, "starter", "seo_metrics").value)
          = {"domain_rating", "domain_authority"}

(***************************************************************************)
(* Claims about the usage counters of one request, checked under SpecReq.  *)
(***************************************************************************)
\* the step in which worker r answers the request it was committing
Answers(r, pc) == req[r].pc = pc /\ req'[r].pc = "idle"

\* the step is a request refused or not found before any write
Refused == issued' # issued /\ req' = req /\ response'.status_code # 200

\* C35: a single-domain lookup by a caller who has a workspace increments
\* domain_lookups_used by exactly 1 when it returns a record and leaves every
\* column of the workspace unchanged when the quota check fails (429) or the
\* domain does not exist (404); the record returned is the projection for the
\* tier read at the start of the request.
C35_LookupCountsOnce ==
    [][/\ Refused => db' = db
       /\ \A r \in RequestWorkers :
            Answers(r, "lookup_commit") =>
                /\ db' = [db EXCEPT ![req[r].w].domain_lookups_used = @ + 1]
                /\ response'.status_code = 200
                /\ response'.masked_for = req[r].loaded.row.tier]_vars

\* C36: an export call that passes the gate consumes exactly one export
\* credit (export_credits_used grows by 1, the other columns are unchanged),
\* a call rejected by the feature gate or the credit check consumes none, and
\* export_credits_used of a workspace whose tier has a finite credit limit
\* never exceeds that limit.
C36_ExportConsumesOneCredit ==
    [][/\ Refused => db' = db
       /\ \A r \in RequestWorkers :
            Answers(r, "export_commit") =>
                db' = [db EXCEPT ![req[r].w].export_credits_used = @ + 1]
       /\ \A w \in Workspaces :
            LET L == TierGate(db'[w].tier).limits.max_export_credits_per_month
            IN  L # None => db'[w].export_credits_used <= L]_vars

(***************************************************************************)
(* Claim about a reset during a request, checked under SpecCycle.          *)
(***************************************************************************)
\* worker r loaded the workspace row in a billing cycle that has ended since
ResetSinceRead(r) ==
    /\ req[r].pc \in {"lookup_commit", "export_commit"}
    /\ db[req[r].w].billing_cycle_start # req[r].loaded.row.billing_cycle_start

\* C37: a billing-cycle reset is not undone by a request in flight: when a
\* lookup or export request commits after an invoice.paid event of its
\* workspace was processed between its read and its write, the commit adds
\* at most 1 to the counter the reset left (so the counter stays at most the
\* number of requests committed since the reset, never the pre-reset value
\* plus one).
C37_ResetNotUndone ==
    [][\A r \in RequestWorkers :
          (ResetSinceRead(r) /\ req'[r].pc = "idle") =>
              LET w == req[r].w
              IN  /\ db'[w].domain_lookups_used <= db[w].domain_lookups_used + 1
                  /\ db'[w].export_credits_used <= db[w].export_credits_used + 1]_vars

(***************************************************************************)
(* Claims about the retries and the test ping, checked under SpecDeliver.  *)
(***************************************************************************)
\* C38: every attempt of a delivery, each retry included, reads the endpoint
\* again before sending: an HTTP POST is made only by an attempt that starts
\* while the endpoint exists, is active and is subscribed to the event type,
\* and it goes to the URL and under the secret stored at that moment; a retry
\* that starts after the endpoint was deleted, deactivated or re-subscribed
\* ends the delivery as skipped, with no further retry.
C38_AttemptsReadEndpoint ==
    [][/\ Posts =>
            /\ endpoint.exists /\ endpoint.is_active
            /\ endpoint.event_types = {} \/ task.event_type \in endpoint.event_types
            /\ sent'[Len(sent')].url = endpoint.url
            /\ sent'[Len(sent')].headers.signature
                  = sign_payload(endpoint.secret, sent'[Len(sent')].content)
       /\ (Executes /\ task.status = "retry" /\ ~Posts) =>
            /\ task'.status = "skipped"
            /\ task'.retries = task.retries
            /\ task'.reason =
                  IF ~endpoint.exists THEN "endpoint_not_found"
                  ELSE IF ~endpoint.is_active THEN "endpoint_inactive"
                  ELSE "event_type_not_subscribed"]_vars

C38_Witness ==
    /\ task.status = "skipped"
    /\ task.reason = "event_type_not_subscribed"
    /\ task.retries = 2
    /\ Len(sent) = 2

\* C39: a test ping requested for an active endpoint of a workspace whose
\* tier allows webhooks is posted to the endpoint whatever event types the
\* endpoint subscribes to: the first execution of the queued ping, finding
\* the endpoint still there and active, makes an HTTP POST to its URL.
C39_PingIsPosted ==
    [][(/\ Executes
        /\ task.status = "queued" /\ task.event_type = "ping"
        /\ endpoint.exists /\ endpoint.is_active
        /\ endpoint.webhook_id = task.webhook_id) =>
            /\ Posts
            /\ sent'[Len(sent')].url = endpoint.url]_vars

(***************************************************************************)
(* Claims about the routes of routes/webhooks.py, checked under            *)
(* SpecWebhooks.                                                           *)
(***************************************************************************)
\* the step leaves the stored endpoint in place
EndpointKept ==
    endpoint.exists /\ endpoint'.exists /\ endpoint'.webhook_id = endpoint.webhook_id

\* C32: the signing secret of an endpoint never changes after its creation:
\* no update, test, list, get or delivery step changes the secret, the URL
\* or the owning workspace of a stored endpoint, and a stored endpoint only
\* goes away by delete_webhook; an update changes at most is_active and
\* event_types.
C32_SecretImmutable ==
    [][endpoint.exists =>
          \/ ~endpoint'.exists /\ response'.status_code = 204
          \/ /\ EndpointKept
             /\ endpoint'.secret = endpoint.secret
             /\ endpoint'.url = endpoint.url
             /\ endpoint'.workspace_id = endpoint.workspace_id]_vars

C32_Witness ==
    /\ endpoint.exists
    /\ ~endpoint.is_active
    /\ endpoint.event_types = {"domain.updated"}
    /\ endpoint.secret = "whsec_b"
    /\ Len(sent) = 1
    /\ response.status_code = 200 /\ "items" \in DOMAIN response

\* the body of the response carries the secret of the stored endpoint
DisclosesSecret(body) ==
    "secret" \in DOMAIN body /\ body.secret = endpoint'.secret

\* C33: the signing secret is disclosed exactly once: the response of the
\* create_webhook call that stores a new endpoint contains the secret, and
\* no response of a later list, get, update or test call contains it.
C33_SecretDisclosedOnce ==
    [][/\ (~endpoint.exists /\ endpoint'.exists) =>
            /\ response'.status_code = 201
            /\ DisclosesSecret(response'.body)
       /\ (endpoint.exists /\ endpoint'.exists) =>
            /\ "body" \in DOMAIN response' => ~DisclosesSecret(response'.body)
            /\ "items" \in DOMAIN response' =>
                  \A item \in response'.items : ~DisclosesSecret(item)]_vars

(***************************************************************************)
(* Claim about the number of alerts, checked under SpecAlerts.             *)
(***************************************************************************)
\* C31: in every reachable state, whatever alert routes and tier-changing
\* billing events came before, the number of alerts (active and inactive)
\* stored for a workspace is at most the max_alerts of its current tier
\* when that limit is not null.
C31_AlertsWithinLimit ==
    \A w \in Workspaces :
        LET limit == TierGate(db[w].tier).limits.max_alerts
        IN  limit # None => Cardinality(AlertsOf(w)) <= limit

\* what the workspace-scoped routes store
stored == <<db, alerts, endpoint, task, uuids, sent, servedExports>>

\* a call of a route of workspace_id by user
ScopedCall(user, workspace_id) ==
    \/ WebhookRoutes(user, workspace_id)
    \/ AlertRoutes(user, workspace_id)
    \/ rotate_api_token(user, workspace_id)
    \/ get_usage(user, workspace_id)
    \/ export_domains("r1", user, workspace_id)

\* a call that addresses, through workspace_id, a webhook or an alert of
\* another workspace
ForeignCall(user, workspace_id) ==
    \/ \E webhook_id \in WebhookIds :
          /\ endpoint.exists /\ webhook_id = endpoint.webhook_id
          /\ endpoint.workspace_id # workspace_id
          /\ \/ get_webhook(user, workspace_id, webhook_id)
             \/ \E payload \in {[is_active |-> FALSE], PingPayload} :
                   update_webhook(user, workspace_id, webhook_id, payload)
             \/ delete_webhook(user, workspace_id, webhook_id)
             \/ test_webhook(user, workspace_id, webhook_id)
    \/ \E a \in alerts :
          /\ a.workspace_id # workspace_id
          /\ \/ get_alert(user, workspace_id, a.alert_id)
             \/ \E alert_type \in AlertTypes :
                   update_alert(user, workspace_id, a.alert_id, alert_type)
             \/ toggle_alert(user, workspace_id, a.alert_id)
             \/ delete_alert(user, workspace_id, a.alert_id)

\* the answer is a refusal with this status and carries no row
RefusedWith(status_code) ==
    /\ response' = [status_code |-> status_code]
    /\ UNCHANGED stored

\* C34: a workspace-scoped call by a user who does not own the addressed
\* workspace is answered 403, or 404 when the workspace does not exist, and
\* changes nothing stored; a call by the owner that names a webhook or an
\* alert of another workspace is answered 403 and returns, changes and
\* deletes nothing.
C34_ScopedToOwner ==
    [][\A c \in Callers :
          /\ (~get_owned_workspace(c[2], c[1]).ok /\ ScopedCall(c[1], c[2]))
                => RefusedWith(IF c[2] \in Workspaces THEN 403 ELSE 404)
          /\ (get_owned_workspace(c[2], c[1]).ok /\ ForeignCall(c[1], c[2]))
                => RefusedWith(403)]_vars

====
